---- MODULE Spec2Model ----
(***************************************************************************)
(* pySWAP: configuration sections, engine invocation (Model.run) and the   *)
(* Result aggregate.  Texts are sequences of one-character strings so that *)
(* split, strip, lower, startswith and the substring test are computed     *)
(* character by character, as the Python code computes them.               *)
(***************************************************************************)
EXTENDS Integers, Sequences, FiniteSets, TLC

VARIABLES
    model,  \* the Model aggregate handed to Model.run
    run,    \* the invocations of Model.run: locals, position, outcome
    fs,     \* the scratch directories under the base path
    iw,     \* a call of Model._identify_warnings
    bb,     \* a BottomBoundary section and what its methods produced
    res,    \* a Result and the outcome of yearly_summary
    snow,   \* a SnowAndFrost construction
    met,    \* a Meteorology construction
    pcrop,  \* a construction of the Crop of plant/crop.py
    gs,     \* a GeneralSettings construction
    ser,    \* a table or text and what the serializers made of it
    tbl,    \* a table handed to the validation of its schema
    rs,     \* a RichardsSettings construction
    wd      \* a KNMI download and the weather table made of it

vars == <<model, run, fs, iw, bb, res, snow, met, pcrop, gs, ser, tbl, rs, wd>>

\* what the steps of one component leave alone
notRun == <<iw, bb, res, snow, met, pcrop, gs, ser, tbl, rs, wd>>

notIw == <<model, run, fs, bb, res, snow, met, pcrop, gs, ser, tbl, rs, wd>>

notBb == <<model, run, fs, iw, res, snow, met, pcrop, gs, ser, tbl, rs, wd>>

notRes == <<model, run, fs, iw, bb, snow, met, pcrop, gs, ser, tbl, rs, wd>>

notSnow == <<model, run, fs, iw, bb, res, met, pcrop, gs, ser, tbl, rs, wd>>

notMet == <<model, run, fs, iw, bb, res, snow, pcrop, gs, ser, tbl, rs, wd>>

notPcrop == <<model, run, fs, iw, bb, res, snow, met, gs, ser, tbl, rs, wd>>

notGs == <<model, run, fs, iw, bb, res, snow, met, pcrop, ser, tbl, rs, wd>>

notSer == <<model, run, fs, iw, bb, res, snow, met, pcrop, gs, tbl, rs, wd>>

notTbl == <<model, run, fs, iw, bb, res, snow, met, pcrop, gs, ser, rs, wd>>

notRs == <<model, run, fs, iw, bb, res, snow, met, pcrop, gs, ser, tbl, wd>>

notWd == <<model, run, fs, iw, bb, res, snow, met, pcrop, gs, ser, tbl, rs>>

\* Optional values: None, or Some(v) holding v
None == <<>>

Some(v) == <<v>>

Get(o) == o[1]

(***************************************************************************)
(* Bounds                                                                  *)
(***************************************************************************)
MaxDirs == 1
MaxRotation == 1
MaxRunLogLines == 2
MaxLogLines == 2

(***************************************************************************)
(* Text helpers                                                            *)
(***************************************************************************)
NL == "\n"

Whitespace == {" ", "\t", "\r"}

\* str.lower on one character
LowerChar(c) ==
    CASE c = "W" -> "w"
      [] c = "A" -> "a"
      [] c = "R" -> "r"
      [] c = "N" -> "n"
      [] c = "I" -> "i"
      [] c = "G" -> "g"
      [] c = "X" -> "x"
      [] OTHER -> c

\* a lower() that leaves every character as it is
Lower_asis(s) == s

\* str.lower()
Lower(s) == [i \in 1..Len(s) |-> LowerChar(s[i])]

RECURSIVE LStrip(_)
LStrip(s) ==
    IF s # <<>> /\ Head(s) \in Whitespace THEN LStrip(Tail(s)) ELSE s

RECURSIVE RStrip(_)
RStrip(s) ==
    IF s # <<>> /\ s[Len(s)] \in Whitespace
    THEN RStrip(SubSeq(s, 1, Len(s) - 1))
    ELSE s

\* str.strip()
Strip(s) == RStrip(LStrip(s))

\* str.startswith(p)
StartsWith(s, p) == Len(s) >= Len(p) /\ SubSeq(s, 1, Len(p)) = p

\* the Python test  p in s
Contains(s, p) ==
    \E i \in 1..(Len(s) - Len(p) + 1) : SubSeq(s, i, i + Len(p) - 1) = p

\* str.split(sep) for a one-character separator: acc is the list of the
\* lines already closed, cur the line being read
RECURSIVE SplitFrom(_, _, _, _)
SplitFrom(s, sep, acc, cur) ==
    IF s = <<>> THEN Append(acc, cur)
    ELSE IF Head(s) = sep THEN SplitFrom(Tail(s), sep, Append(acc, cur), <<>>)
    ELSE SplitFrom(Tail(s), sep, acc, Append(cur, Head(s)))

Split(s, sep) == SplitFrom(s, sep, <<>>, <<>>)

\* sep.join(lines)
RECURSIVE Join(_, _)
Join(lines, sep) ==
    IF lines = <<>> THEN <<>>
    ELSE IF Len(lines) = 1 THEN lines[1]
    ELSE lines[1] \o <<sep>> \o Join(Tail(lines), sep)

\* the subsets of S with at most k elements
RECURSIVE SubsetsUpTo(_, _)
SubsetsUpTo(S, k) ==
    IF k = 0 THEN {{}}
    ELSE LET smaller == SubsetsUpTo(S, k - 1)
         IN smaller \cup {g \cup {x} : g \in smaller, x \in S}

\* all sequences over S of length lo..hi
SeqsOf(S, lo, hi) == UNION {[1..n -> S] : n \in lo..hi}

WARNING == <<"w", "a", "r", "n", "i", "n", "g">>

NORMAL_COMPLETION ==
    <<"n", "o", "r", "m", "a", "l", " ",
      "c", "o", "m", "p", "l", "e", "t", "i", "o", "n">>

\* the text in front of the captured output in the failure message
RUN_FAILED ==
    <<"M", "o", "d", "e", "l", " ", "r", "u", "n", " ",
      "f", "a", "i", "l", "e", "d", ".", " ", NL, " ">>

(***************************************************************************)
(* Model._identify_warnings                                                *)
(***************************************************************************)
IsWarningLine(line) == StartsWith(Lower(Strip(line)), WARNING)

RECURSIVE FilterLines(_)
FilterLines(lines) ==
    IF lines = <<>> THEN <<>>
    ELSE IF IsWarningLine(Head(lines))
         THEN <<Head(lines)>> \o FilterLines(Tail(lines))
         ELSE FilterLines(Tail(lines))

_identify_warnings(log) == FilterLines(Split(log, NL))

(***************************************************************************)
(* The Model aggregate: the sections Model._write_inputs looks at          *)
(***************************************************************************)
CropNames == {"grassd", "maize"}

\* CROPFIL column of the crop-rotation table
Rotations == {None} \cup {Some(t) : t \in SeqsOf(CropNames, 1, MaxRotation)}

CropInputs ==
    {c \in [swcrop : {Some(0), Some(1)}, rds : {Some(0), Some(200)},
            croprotation : Rotations, cropfiles : SUBSET CropNames] :
        (c.swcrop = Some(0)) <=> (c.croprotation = None)}

\* field constraints declared by components.crop.Crop
Crop(c) ==
    /\ c.swcrop \in {Some(0), Some(1), None}
    /\ c.rds = None \/ (Get(c.rds) >= 1 /\ Get(c.rds) <= 5000)

FixedIrrigations ==
    {None, Some([irrigationdata |-> FALSE]), Some([irrigationdata |-> TRUE])}

ModelInputs ==
    [crop : CropInputs,
     lateraldrainage : [drainagefile : BOOLEAN],
     meteorology : [meteodata : BOOLEAN],
     irrigation : [fixedirrig : FixedIrrigations]]

(***************************************************************************)
(* The scratch directories under the base path: fs maps the name of every  *)
(* existing directory to its files (file name -> content)                  *)
(***************************************************************************)
\* the names mkdtemp may give to a new directory: MaxDirs names that no
\* existing directory has
DirNames(fsys) == (1..(Cardinality(DOMAIN fsys) + MaxDirs)) \ DOMAIN fsys

EmptyDir == [n \in {} |-> None]

\* tempfile.TemporaryDirectory(dir=path).__enter__
TemporaryDirectory(fsys, d) == (d :> EmptyDir) @@ fsys

\* a scratch directory that is never removed
TemporaryDirectory_exit_keep(fsys, d) == fsys

\* TemporaryDirectory.__exit__: the directory goes with all its files
TemporaryDirectory_exit(fsys, d) ==
    [x \in DOMAIN fsys \ {d} |-> fsys[x]]

\* files written into directory d; a file of the same name is replaced
write_files(fsys, d, files) == [fsys EXCEPT ![d] = files @@ @]

exists(fsys, d, name) == d \in DOMAIN fsys /\ name \in DOMAIN fsys[d]

OutputFiles == {"result.blc", "result_output.csv", "result.vap"}

LOG_FILE == "swap_swap.log"

\* what the engine prints (stdout and stderr combined)
EngineOutputs ==
    { NORMAL_COMPLETION,
      <<"x", " ">> \o NORMAL_COMPLETION \o <<NL>>,
      <<"N">> \o Tail(NORMAL_COMPLETION),
      <<"e", "r", "r", "o", "r">> }

RunLogLines ==
    { <<"W", "a", "r", "n", "i", "n", "g", ":", " ", "x">>,
      <<" ", "w", "a", "r", "n", "i", "n", "g">>,
      <<"x">> }

RunLogs == {Join(ls, NL) : ls \in SeqsOf(RunLogLines, 1, MaxRunLogLines)}

\* a message that loses the last character of the captured text
FailureMessage_truncated(result) ==
    RUN_FAILED \o SubSeq(result, 1, Len(result) - 1)

\* the message of the exception of a failed run
FailureMessage(result) == RUN_FAILED \o result

Exception(kind, msg) == [kind |-> kind, msg |-> msg]

\* warnings handed over in reverse order
_raise_swap_warning_front(warned, message) == <<message>> \o warned

\* Model._raise_swap_warning: one call of warnings.warn
_raise_swap_warning(warned, message) == Append(warned, message)

\* Result(summary=, output=, vap=, log=, warning=)
Result(summary, output, vap, log, warning) ==
    [summary |-> summary, output |-> output, vap |-> vap,
     log |-> log, warning |-> warning]

NewRun ==
    [pc |-> "idle", tempdir |-> None, result |-> None, log |-> None,
     warnings |-> <<>>, widx |-> 1, warned |-> <<>>,
     summary |-> None, output |-> None, vap |-> None,
     ret |-> None, exc |-> None]

Runs == DOMAIN run

\* an exception leaves the with block: the directory is released next
Raise(r, e) == [run[r] EXCEPT !.pc = "exit", !.exc = Some(e)]

Goto(r, pc) == [run[r] EXCEPT !.pc = pc]

(***************************************************************************)
(* Construction of the sections                                            *)
(***************************************************************************)
Construct ==
    /\ model.state = "new"
    /\ model' = [model EXCEPT
                    !.state = IF Crop(model.crop) THEN "valid" ELSE "invalid"]
    /\ UNCHANGED <<run, fs, notRun>>

(***************************************************************************)
(* Model.run, one step per statement                                       *)
(***************************************************************************)
\* a directory whose name may be the name of an existing directory
Enter_anyname(r) ==
    /\ model.state = "valid"
    /\ run[r].pc = "idle"
    /\ \/ \E d \in 1..(Cardinality(DOMAIN fs) + MaxDirs) :
            /\ fs' = TemporaryDirectory(fs, d)
            /\ run' = [run EXCEPT ![r] = [@ EXCEPT !.pc = "copy", !.tempdir = Some(d)]]
       \/ /\ run' = [run EXCEPT ![r] =
                        [@ EXCEPT !.pc = "raised",
                                  !.exc = Some(Exception("OSError", <<>>))]]
          /\ fs' = fs
    /\ UNCHANGED <<model, notRun>>

\* with tempfile.TemporaryDirectory(dir=path) as tempdir
Enter(r) ==
    /\ model.state = "valid"
    /\ run[r].pc = "idle"
    /\ \/ \E d \in DirNames(fs) :
            /\ fs' = TemporaryDirectory(fs, d)
            /\ run' = [run EXCEPT ![r] = [@ EXCEPT !.pc = "copy", !.tempdir = Some(d)]]
       \/ /\ run' = [run EXCEPT ![r] =
                        [@ EXCEPT !.pc = "raised",
                                  !.exc = Some(Exception("OSError", <<>>))]]
          /\ fs' = fs
    /\ UNCHANGED <<model, notRun>>

\* _copy_swap_exe / _copy_swap
_copy_swap(r) ==
    /\ run[r].pc = "copy"
    /\ \/ /\ fs' = write_files(fs, Get(run[r].tempdir), "swap420" :> "exe")
          /\ run' = [run EXCEPT ![r] = Goto(r, "write_swp")]
       \/ /\ fs' = fs
          /\ run' = [run EXCEPT ![r] = Raise(r, Exception("OSError", <<>>))]
    /\ UNCHANGED <<model, notRun>>

\* one statement of _write_inputs: write the files when cond holds
WriteStep(r, pc, next, cond, files) ==
    /\ run[r].pc = pc
    /\ \/ /\ fs' = IF cond THEN write_files(fs, Get(run[r].tempdir), files) ELSE fs
          /\ run' = [run EXCEPT ![r] = Goto(r, next)]
       \/ /\ cond
          /\ fs' = fs
          /\ run' = [run EXCEPT ![r] = Raise(r, Exception("OSError", <<>>))]
    /\ UNCHANGED <<model, notRun>>

write_swp(r) ==
    WriteStep(r, "write_swp", "write_dra", TRUE, "swap.swp" :> "swp")

write_dra(r) ==
    WriteStep(r, "write_dra", "write_crop",
              model.lateraldrainage.drainagefile, "swap.dra" :> "dra")

write_crop(r) ==
    WriteStep(r, "write_crop", "write_met",
              model.crop.cropfiles # {},
              [n \in model.crop.cropfiles |-> "crp"])

write_met(r) ==
    WriteStep(r, "write_met", "write_irg",
              model.meteorology.meteodata, "swap.met" :> "met")

\* an irrigation file written whenever fixedirrig is set
write_irg_unguarded(r) ==
    WriteStep(r, "write_irg", "run_exe",
              model.irrigation.fixedirrig # None, "swap.irg" :> "irg")

write_irg(r) ==
    WriteStep(r, "write_irg", "run_exe",
              /\ model.irrigation.fixedirrig # None
              /\ Get(model.irrigation.fixedirrig).irrigationdata,
              "swap.irg" :> "irg")

\* the engine is opaque: it prints one of outputs and leaves in its working
\* directory one of logs, or no log, and one of the sets of files of written
Popen(r, outputs, logs, written) ==
    /\ run[r].pc = "run_exe"
    /\ \/ \E out \in outputs,
             lg \in {None} \cup {Some(l) : l \in logs},
             outs \in written :
            /\ fs' = write_files(fs, Get(run[r].tempdir),
                        [n \in outs \cup (IF lg = None THEN {} ELSE {LOG_FILE})
                            |-> IF n = LOG_FILE THEN Get(lg) ELSE n])
            /\ run' = [run EXCEPT ![r] =
                          [@ EXCEPT !.pc = "check", !.result = Some(out)]]
       \/ /\ fs' = fs
          /\ run' = [run EXCEPT ![r] = Raise(r, Exception("OSError", <<>>))]
    /\ UNCHANGED <<model, notRun>>

\* Model._run_exe
_run_exe(r) == Popen(r, EngineOutputs, RunLogs, SUBSET OutputFiles)

\* a check that lets every run through
CheckCompletion_anyway(r) ==
    /\ run[r].pc = "check"
    /\ run' = [run EXCEPT ![r] = Goto(r, "read_log")]
    /\ UNCHANGED <<model, fs, notRun>>

\* if 'normal completion' not in result: raise Exception(...)
CheckCompletion(r) ==
    /\ run[r].pc = "check"
    /\ run' = [run EXCEPT ![r] =
                  IF ~Contains(Get(run[r].result), NORMAL_COMPLETION)
                  THEN Raise(r, Exception("Exception",
                                          FailureMessage(Get(run[r].result))))
                  ELSE Goto(r, "read_log")]
    /\ UNCHANGED <<model, fs, notRun>>

\* log = self._read_log(tempdir); warnings = self._identify_warnings(log)
_read_log(r) ==
    /\ run[r].pc = "read_log"
    /\ run' = [run EXCEPT ![r] =
                  IF exists(fs, Get(run[r].tempdir), LOG_FILE)
                  THEN [@ EXCEPT !.pc = "warn",
                           !.log = Some(fs[Get(run[r].tempdir)][LOG_FILE]),
                           !.warnings =
                               _identify_warnings(fs[Get(run[r].tempdir)][LOG_FILE]),
                           !.widx = 1]
                  ELSE Raise(r, Exception("FileNotFoundError", <<>>))]
    /\ UNCHANGED <<model, fs, notRun>>

\* for warning in warnings: self._raise_swap_warning(message=warning)
WarnLoop(r) ==
    /\ run[r].pc = "warn"
    /\ run' = [run EXCEPT ![r] =
                  IF run[r].widx <= Len(run[r].warnings)
                  THEN [@ EXCEPT !.warned =
                               _raise_swap_warning(@, run[r].warnings[run[r].widx]),
                           !.widx = @ + 1]
                  ELSE Goto(r, "read_blc")]
    /\ UNCHANGED <<model, fs, notRun>>

\* the arguments of Result(...), evaluated in order
ReadStep(r, pc, next, name, field) ==
    /\ run[r].pc = pc
    /\ run' = [run EXCEPT ![r] =
                  IF exists(fs, Get(run[r].tempdir), name)
                  THEN [@ EXCEPT !.pc = next,
                                 ![field] = Some(fs[Get(run[r].tempdir)][name])]
                  ELSE Raise(r, Exception("FileNotFoundError", <<>>))]
    /\ UNCHANGED <<model, fs, notRun>>

open_file(r) == ReadStep(r, "read_blc", "read_csv", "result.blc", "summary")

_read_output(r) ==
    ReadStep(r, "read_csv", "read_vap", "result_output.csv", "output")

_read_vap(r) == ReadStep(r, "read_vap", "build", "result.vap", "vap")

\* result = Result(...); return result
Return(r) ==
    /\ run[r].pc = "build"
    /\ run' = [run EXCEPT ![r] =
                  [@ EXCEPT !.pc = "exit",
                            !.ret = Some(Result(Get(run[r].summary),
                                                Get(run[r].output),
                                                Get(run[r].vap),
                                                Get(run[r].log),
                                                run[r].warnings))]]
    /\ UNCHANGED <<model, fs, notRun>>

\* the with block is left, by return or by exception
Exit(r) ==
    /\ run[r].pc = "exit"
    /\ fs' = TemporaryDirectory_exit(fs, Get(run[r].tempdir))
    /\ run' = [run EXCEPT ![r] =
                  Goto(r, IF run[r].exc = None THEN "returned" ELSE "raised")]
    /\ UNCHANGED <<model, notRun>>

\* a component that takes no part in a specification
Idle == [state |-> "unused"]

NoRun ==
    /\ model = Idle
    /\ run = [r \in {} |-> NewRun]
    /\ fs = [d \in {} |-> EmptyDir]

Init ==
    /\ \E m \in ModelInputs : model = [state |-> "new"] @@ m
    /\ run = (1 :> NewRun)
    /\ fs = [d \in {} |-> EmptyDir]
    /\ iw = Idle /\ bb = Idle /\ res = Idle /\ snow = Idle /\ met = Idle
    /\ tbl = Idle /\ rs = Idle /\ wd = Idle
    /\ pcrop = Idle /\ gs = Idle /\ ser = Idle

Next ==
    \/ Construct
    \/ \E r \in Runs : Enter(r)
    \/ \E r \in Runs : _copy_swap(r)
    \/ \E r \in Runs : write_swp(r)
    \/ \E r \in Runs : write_dra(r)
    \/ \E r \in Runs : write_crop(r)
    \/ \E r \in Runs : write_met(r)
    \/ \E r \in Runs : write_irg(r)
    \/ \E r \in Runs : _run_exe(r)
    \/ \E r \in Runs : CheckCompletion(r)
    \/ \E r \in Runs : _read_log(r)
    \/ \E r \in Runs : WarnLoop(r)
    \/ \E r \in Runs : open_file(r)
    \/ \E r \in Runs : _read_output(r)
    \/ \E r \in Runs : _read_vap(r)
    \/ \E r \in Runs : Return(r)
    \/ \E r \in Runs : Exit(r)

Spec == Init /\ [][Next]_vars

(***************************************************************************)
(* Two calls of Model.run at a time, with the same base path               *)
(***************************************************************************)
\* a model without satellite data and one with all of them
ConcurrentModels ==
    {m \in ModelInputs :
        /\ m.crop.swcrop = Some(0) /\ m.crop.rds = Some(200)
        /\ \/ /\ m.crop.cropfiles = {}
              /\ ~m.lateraldrainage.drainagefile
              /\ ~m.meteorology.meteodata
              /\ m.irrigation.fixedirrig = None
           \/ /\ m.crop.cropfiles = CropNames
              /\ m.lateraldrainage.drainagefile
              /\ m.meteorology.meteodata
              /\ m.irrigation.fixedirrig = Some([irrigationdata |-> TRUE])}

InitConcurrent ==
    /\ \E m \in ConcurrentModels : model = [state |-> "new"] @@ m
    /\ run = (1 :> NewRun) @@ (2 :> NewRun)
    /\ fs = [d \in {} |-> EmptyDir]
    /\ iw = Idle /\ bb = Idle /\ res = Idle /\ snow = Idle /\ met = Idle
    /\ tbl = Idle /\ rs = Idle /\ wd = Idle
    /\ pcrop = Idle /\ gs = Idle /\ ser = Idle

\* Model._run_exe with an engine of fewer behaviours: it completes or not,
\* and leaves a log with a warning and all the output files, or nothing
_run_exe_brief(r) ==
    Popen(r, {NORMAL_COMPLETION, <<"e", "r", "r", "o", "r">>},
          {<<"W", "a", "r", "n", "i", "n", "g", ":", " ", "x">>},
          {{}, OutputFiles})

NextConcurrent ==
    \/ Construct
    \/ \E r \in Runs : Enter(r)
    \/ \E r \in Runs : _copy_swap(r)
    \/ \E r \in Runs : write_swp(r)
    \/ \E r \in Runs : write_dra(r)
    \/ \E r \in Runs : write_crop(r)
    \/ \E r \in Runs : write_met(r)
    \/ \E r \in Runs : write_irg(r)
    \/ \E r \in Runs : _run_exe_brief(r)
    \/ \E r \in Runs : CheckCompletion(r)
    \/ \E r \in Runs : _read_log(r)
    \/ \E r \in Runs : WarnLoop(r)
    \/ \E r \in Runs : open_file(r)
    \/ \E r \in Runs : _read_output(r)
    \/ \E r \in Runs : _read_vap(r)
    \/ \E r \in Runs : Return(r)
    \/ \E r \in Runs : Exit(r)

SpecConcurrent == InitConcurrent /\ [][NextConcurrent]_vars

(***************************************************************************)
(* Model._identify_warnings on its own                                     *)
(***************************************************************************)
LogLines ==
    { <<"W", "a", "r", "n", "i", "n", "g", ":", " ", "x">>,
      <<"w", "a", "r", "n", "i", "n", "g", "s">>,
      <<"W", "A", "R", "N", "I", "N", "G", " ">>,
      <<" ", "\t", "w", "a", "r", "n", "i", "n", "g">>,
      <<"x", " ", "w", "a", "r", "n", "i", "n", "g">>,
      <<"w", "a", "r", "n">>,
      <<" ">>,
      <<>> }

InitWarn ==
    /\ \E ls \in SeqsOf(LogLines, 1, MaxLogLines) :
          iw = [state |-> "log", lines |-> ls, log |-> Join(ls, NL),
                warnings |-> <<>>]
    /\ NoRun
    /\ tbl = Idle /\ rs = Idle /\ wd = Idle
    /\ bb = Idle /\ res = Idle /\ snow = Idle /\ met = Idle
    /\ pcrop = Idle /\ gs = Idle /\ ser = Idle

IdentifyWarnings ==
    /\ iw.state = "log"
    /\ iw' = [iw EXCEPT !.state = "done",
                        !.warnings = _identify_warnings(iw.log)]
    /\ UNCHANGED notIw

NextWarn == IdentifyWarnings

SpecWarn == InitWarn /\ [][NextWarn]_vars

(***************************************************************************)
(* BottomBoundary                                                          *)
(***************************************************************************)
MaxFieldsSet == 2

\* the fields in the order the class declares them
BottomBoundaryFields ==
    <<"swbbcfile", "bbcfil", "swbotb", "sw2", "sw3", "sw4",
      "swbotb3resvert", "swbotb3impl", "swqhbot", "sinave", "sinamp",
      "sinmax", "shape", "hdrain", "rimlay", "aqave", "aqamp", "aqtmax",
      "aqper", "cofqha", "cofqhb", "cofqhc", "gwlevel", "qbot", "haquif",
      "qbot4", "qtab", "hbot5">>

FileReferenceFields == {"swbbcfile", "bbcfil"}

FieldNames(fields) == {fields[i] : i \in 1..Len(fields)}

BodyFields == FieldNames(BottomBoundaryFields) \ FileReferenceFields

BottomBoundaryInputs ==
    {[f \in FieldNames(BottomBoundaryFields) |->
         IF f = "swbbcfile" THEN sw
         ELSE IF f = "bbcfil" THEN fil
         ELSE IF f \in given THEN Some(1) ELSE None] :
        sw \in {None, Some(0), Some(1)},
        fil \in {None, Some("swap")},
        given \in SubsetsUpTo(BodyFields, MaxFieldsSet)}

\* SerializableMixin.model_string(include=, exclude=): one NAME = VALUE
\* line per non-null field, in declared order; include = None admits all
RECURSIVE model_string(_, _, _, _)
model_string(fields, obj, include, exclude) ==
    IF fields = <<>> THEN <<>>
    ELSE LET f == Head(fields)
             rest == model_string(Tail(fields), obj, include, exclude)
         IN IF /\ obj[f] # None
               /\ (include = None \/ f \in Get(include))
               /\ f \notin exclude
            THEN <<[name |-> f, value |-> Get(obj[f])]>> \o rest
            ELSE rest

\* BottomBoundary._model_string(**kwargs)
_model_string(obj, include, exclude) ==
    model_string(BottomBoundaryFields, obj, include, exclude)

\* BottomBoundary.bbc
bbc(obj) == _model_string(obj, None, {"swbbcfile", "bbcfil"})

\* a model_string that takes any given switch value for file mode
BottomBoundary_model_string_anyswitch(obj) ==
    IF obj["swbbcfile"] # None
    THEN model_string(BottomBoundaryFields, obj,
                      Some({"swbbcfile", "bbcfil"}), {})
    ELSE model_string(BottomBoundaryFields, obj, None, {})

\* BottomBoundary.model_string
BottomBoundary_model_string(obj) ==
    IF obj["swbbcfile"] = Some(1)
    THEN model_string(BottomBoundaryFields, obj,
                      Some({"swbbcfile", "bbcfil"}), {})
    ELSE model_string(BottomBoundaryFields, obj, None, {})

\* FileMixin.save_file(string=, fname=, path=): the file fname with the
\* extension of the class is written in path
save_file(files, string, fname, extension) ==
    (<<fname, extension>> :> string) @@ files

\* a write_bbc that does not look at the switch
write_bbc_unguarded(obj, files) ==
    [err |-> None, files |-> save_file(files, bbc(obj), obj["bbcfil"], "bbc")]

\* BottomBoundary.write_bbc
write_bbc(obj, files) ==
    IF obj["swbbcfile"] # Some(1)
    THEN [err |-> Some("ValueError"), files |-> files]
    ELSE [err |-> None,
          files |-> save_file(files, bbc(obj), obj["bbcfil"], "bbc")]

NoFiles == [n \in {} |-> <<>>]

InitBB ==
    /\ \E b \in BottomBoundaryInputs :
          bb = [obj |-> b, swp |-> None, bbc |-> None,
                written |-> FALSE, err |-> None, files |-> NoFiles]
    /\ NoRun
    /\ tbl = Idle /\ rs = Idle /\ wd = Idle
    /\ iw = Idle /\ res = Idle /\ snow = Idle /\ met = Idle
    /\ pcrop = Idle /\ gs = Idle /\ ser = Idle

\* the section is serialized for swap.swp
CallModelString ==
    /\ bb.swp = None
    /\ bb' = [bb EXCEPT !.swp = Some(BottomBoundary_model_string(bb.obj))]
    /\ UNCHANGED notBb

CallBbc ==
    /\ bb.bbc = None
    /\ bb' = [bb EXCEPT !.bbc = Some(bbc(bb.obj))]
    /\ UNCHANGED notBb

CallWriteBbc ==
    /\ ~bb.written
    /\ LET out == write_bbc(bb.obj, bb.files)
       IN bb' = [bb EXCEPT !.written = TRUE, !.err = out.err,
                           !.files = out.files]
    /\ UNCHANGED notBb

NextBB == CallModelString \/ CallBbc \/ CallWriteBbc

SpecBB == InitBB /\ [][NextBB]_vars

(***************************************************************************)
(* Result (model/result.py)                                                *)
(***************************************************************************)
MaxRows == 3

MaxYears == 3

Years == 2000..(2000 + MaxYears - 1)

\* the time index: <<year, day of the year>>
Dates == Years \X {1, 2}

Before(d, e) == d[1] < e[1] \/ (d[1] = e[1] /\ d[2] < e[2])

\* daily rows of one numeric column, in the order of time
Frames ==
    {f \in SeqsOf([date : Dates, v : {1, 2}], 0, MaxRows) :
        \A i \in 1..(Len(f) - 1) : Before(f[i].date, f[i + 1].date)}

DataFrame(rows) == [type |-> "DataFrame", rows |-> rows]

isinstance(value, type) == value # None /\ Get(value).type = type

\* what output may hold under 'csv': nothing, None, a string or a table
CsvEntries ==
    {<<>>, <<None>>, <<Some([type |-> "str", rows |-> <<>>])>>}
        \cup {<<Some(DataFrame(f))>> : f \in Frames}

ResultOutputs ==
    {None} \cup
    {Some([k \in (IF e = <<>> THEN {} ELSE {"csv"}) \cup other |->
              IF k = "csv" THEN e[1] ELSE Some([type |-> "str", rows |-> <<>>])]) :
        e \in CsvEntries, other \in SUBSET {"blc"}}

\* dict.get(key, None)
get(dict, key) == IF key \in DOMAIN dict THEN dict[key] ELSE None

\* Result.csv
csv(self) == get(Get(self.output), "csv")

\* the sum of column v over the rows of year y
RECURSIVE YearSum(_, _)
YearSum(rows, y) ==
    IF rows = <<>> THEN 0
    ELSE (IF Head(rows).date[1] = y THEN Head(rows).v ELSE 0)
         + YearSum(Tail(rows), y)

\* the year-end bins from year y to year last, each with the sum of its rows
RECURSIVE YearBins(_, _, _)
YearBins(rows, y, last) ==
    IF y > last THEN <<>>
    ELSE <<[year |-> y, v |-> YearSum(rows, y)]>>
         \o YearBins(rows, y + 1, last)

\* DataFrame.resample("YE").sum() on a time-ordered frame
resample_YE_sum(rows) ==
    IF rows = <<>> THEN <<>>
    ELSE YearBins(rows, rows[1].date[1], rows[Len(rows)].date[1])

\* a yearly_summary that takes anything but None for a table
yearly_summary_notnone(self) ==
    IF self.output = None THEN [err |-> Some("AttributeError"), rows |-> <<>>]
    ELSE IF csv(self) = None
         THEN [err |-> Some("TypeError"), rows |-> <<>>]
         ELSE [err |-> None, rows |-> resample_YE_sum(Get(csv(self)).rows)]

\* Result.yearly_summary
yearly_summary(self) ==
    IF self.output = None THEN [err |-> Some("AttributeError"), rows |-> <<>>]
    ELSE IF ~isinstance(csv(self), "DataFrame")
         THEN [err |-> Some("TypeError"), rows |-> <<>>]
         ELSE [err |-> None, rows |-> resample_YE_sum(Get(csv(self)).rows)]

InitResult ==
    /\ \E o \in ResultOutputs :
          res = [state |-> "created", output |-> o, summary |-> None]
    /\ NoRun
    /\ tbl = Idle /\ rs = Idle /\ wd = Idle
    /\ iw = Idle /\ bb = Idle /\ snow = Idle /\ met = Idle
    /\ pcrop = Idle /\ gs = Idle /\ ser = Idle

\* result.yearly_summary is evaluated
CallYearlySummary ==
    /\ res.summary = None
    /\ res' = [res EXCEPT !.summary = Some(yearly_summary(res))]
    /\ UNCHANGED notRes

NextResult == CallYearlySummary

SpecResult == InitResult /\ [][NextResult]_vars

(***************************************************************************)
(* Result: its computed fields and attribute assignment.  A Python value   *)
(* is None or Some(v); what an operation did is kept in res.last: the      *)
(* operation, the exception raised, the value returned and the text        *)
(* printed.                                                                *)
(***************************************************************************)
ITERATION_STATISTICS ==
    <<"I", "t", "e", "r", "a", "t", "i", "o", "n", " ",
      "s", "t", "a", "t", "i", "s", "t", "i", "c", "s">>

ResultLogs ==
    {None, Some(<<"x">>), Some(ITERATION_STATISTICS \o <<NL, "1">>),
     Some(<<"x", NL>> \o ITERATION_STATISTICS \o <<" ", "1", NL>>
          \o ITERATION_STATISTICS \o <<" ", "2">>)}

ResultWarnings == {None, Some(<<>>), Some(<<WARNING>>)}

OutputKinds == {"csv", "csv_tz", "blc"}

\* the characters of an output kind
KindText(k) ==
    CASE k = "csv" -> <<"c", "s", "v">>
      [] k = "csv_tz" -> <<"c", "s", "v", "_", "t", "z">>
      [] k = "blc" -> <<"b", "l", "c">>

\* what output may hold under 'csv': a table of one row at most
CsvTablesHeld ==
    {Some(DataFrame(<<>>))}
    \cup {Some(DataFrame(<<[date |-> d, v |-> 1]>>)) : d \in Dates}

\* the output mappings: any of the kinds, a table under 'csv' and under
\* 'csv_tz', a text under 'blc'
OutputMappings ==
    {[k \in kinds |->
         IF k = "csv" THEN c
         ELSE IF k = "csv_tz" THEN Some(DataFrame(<<>>))
         ELSE Some([type |-> "str", text |-> <<"b", "l", "c">>])] :
        kinds \in SUBSET OutputKinds, c \in CsvTablesHeld}

OutputValues == {None} \cup {Some(o) : o \in OutputMappings}

\* str.endswith(p)
EndsWith(s, p) ==
    Len(s) >= Len(p) /\ SubSeq(s, Len(s) - Len(p) + 1, Len(s)) = p

\* Result.ascii
ascii(self) ==
    LET output == Get(self.output)
    IN [k \in {x \in DOMAIN output :
                  ~EndsWith(KindText(x), <<"c", "s", "v">>)} |-> output[k]]

\* Result.csv_tz
csv_tz(self) == get(Get(self.output), "csv_tz")

\* Result.iteration_stats: the greedy '.*' in front of the group takes the
\* match to the last 'Iteration statistics' of the log
iteration_stats(self) ==
    LET log == Get(self.log)
        n == Len(ITERATION_STATISTICS)
        starts == {i \in 1..(Len(log) - n + 1) :
                      SubSeq(log, i, i + n - 1) = ITERATION_STATISTICS}
    IN IF starts # {}
       THEN SubSeq(log, CHOOSE i \in starts : \A j \in starts : j <= i,
                   Len(log))
       ELSE <<>>

\* Result.blc_summary: prints the 'blc' entry and returns nothing
blc_summary(self) ==
    [printed |-> Some(get(Get(self.output), "blc")), value |-> None]

ComputedFields ==
    {"ascii", "csv", "csv_tz", "iteration_stats", "blc_summary",
     "yearly_summary"}

Outcome(op, err, value, printed) ==
    [op |-> op, err |-> err, value |-> value, printed |-> printed]

\* getattr(self, name) for a computed field
getattr(self, name) ==
    IF name = "iteration_stats"
    THEN IF self.log = None
         THEN Outcome(name, Some("TypeError"), None, None)
         ELSE Outcome(name, None, Some(iteration_stats(self)), None)
    ELSE IF self.output = None
    THEN Outcome(name, Some("AttributeError"), None, None)
    ELSE CASE name = "ascii" -> Outcome(name, None, Some(ascii(self)), None)
           [] name = "csv" -> Outcome(name, None, csv(self), None)
           [] name = "csv_tz" -> Outcome(name, None, csv_tz(self), None)
           [] name = "blc_summary" ->
                  Outcome(name, None, blc_summary(self).value,
                          blc_summary(self).printed)
           [] name = "yearly_summary" ->
                  LET y == yearly_summary(self)
                  IN Outcome(name, y.err,
                             IF y.err = None THEN Some(y.rows) ELSE None,
                             None)

\* the values a caller may assign to name, each with its Python type: None,
\* an integer, and the values of the type the field is annotated with
AssignedValues(name) ==
    {[type |-> "NoneType", v |-> None], [type |-> "int", v |-> None]}
    \cup (CASE name = "log" ->
                  {[type |-> "str", v |-> l] : l \in ResultLogs \ {None}}
            [] name = "output" ->
                  {[type |-> "dict", v |-> o] : o \in OutputValues \ {None}}
            [] name = "warning" ->
                  {[type |-> "list", v |-> w] :
                      w \in ResultWarnings \ {None}}
            [] OTHER -> {})

\* the annotations of the three fields
FieldType(name) ==
    CASE name = "log" -> {"str", "NoneType"}
      [] name = "output" -> {"dict", "NoneType"}
      [] name = "warning" -> {"list", "NoneType"}
      [] OTHER -> {}

InitResultOps ==
    /\ \E l \in ResultLogs, o \in OutputValues, w \in ResultWarnings :
          res = [state |-> "created", log |-> l, output |-> o, warning |-> w,
                 last |-> Outcome("__init__", None, None, None)]
    /\ NoRun
    /\ tbl = Idle /\ rs = Idle /\ wd = Idle
    /\ iw = Idle /\ bb = Idle /\ snow = Idle /\ met = Idle
    /\ pcrop = Idle /\ gs = Idle /\ ser = Idle

\* an evaluation of blc_summary that takes the entry out of output
Evaluate_pop(name) ==
    /\ res.state = "created"
    /\ res' = [res EXCEPT
                  !.last = getattr(res, name),
                  !.output =
                      IF name = "blc_summary" /\ res.output # None
                      THEN Some([k \in DOMAIN Get(res.output) \ {"blc"} |->
                                    Get(res.output)[k]])
                      ELSE @]
    /\ UNCHANGED notRes

\* result.<name> is evaluated, name a computed field
Evaluate(name) ==
    /\ res.state = "created"
    /\ res' = [res EXCEPT !.last = getattr(res, name)]
    /\ UNCHANGED notRes

\* result.<name> = value: validate_assignment checks the value against the
\* annotation of the field, extra="forbid" refuses any other name
__setattr__(name, value) ==
    /\ res.state = "created"
    /\ res' = IF value.type \in FieldType(name)
              THEN [res EXCEPT ![name] = value.v,
                               !.last = Outcome("__setattr__", None, None,
                                                None)]
              ELSE [res EXCEPT !.last = Outcome("__setattr__",
                                                Some("ValidationError"),
                                                None, None)]
    /\ UNCHANGED notRes

NextResultOps ==
    \/ \E name \in ComputedFields : Evaluate(name)
    \/ \E name \in {"log", "output", "warning", "summary"} :
          \E value \in AssignedValues(name) : __setattr__(name, value)

SpecResultOps == InitResultOps /\ [][NextResultOps]_vars

(***************************************************************************)
(* SnowAndFrost                                                            *)
(***************************************************************************)
SnowAndFrostInputs ==
    [swsnow : {0, 1}, swfrost : {0, 1},
     snowinco : {None, Some(1)},
     teprrain : {None, Some(1)},
     teprsnow : {None, Some(1)},
     snowcoef : {None, Some(1)},
     tfrostst : {None, Some(1)},
     tfrostend : {None, Some(1)}]

\* a validator that looks at the frost fields only when swsnow is 1 too
_validate_snow_and_frost_nested(self) ==
    /\ self.swsnow = 1 =>
          /\ self.snowinco # None
          /\ self.teprrain # None
          /\ self.teprsnow # None
          /\ self.snowcoef # None
          /\ self.swfrost = 1 =>
                /\ self.tfrostst # None
                /\ self.tfrostend # None

\* SnowAndFrost._validate_snow_and_frost: TRUE when no assertion fails
_validate_snow_and_frost(self) ==
    /\ self.swsnow = 1 =>
          /\ self.snowinco # None
          /\ self.teprrain # None
          /\ self.teprsnow # None
          /\ self.snowcoef # None
    /\ self.swfrost = 1 =>
          /\ self.tfrostst # None
          /\ self.tfrostend # None

InitSnow ==
    /\ \E i \in SnowAndFrostInputs : snow = [state |-> "new", obj |-> i]
    /\ NoRun
    /\ tbl = Idle /\ rs = Idle /\ wd = Idle
    /\ iw = Idle /\ bb = Idle /\ res = Idle /\ met = Idle
    /\ pcrop = Idle /\ gs = Idle /\ ser = Idle

\* SnowAndFrost(**fields)
SnowAndFrost ==
    /\ snow.state = "new"
    /\ snow' = [snow EXCEPT !.state =
                    IF _validate_snow_and_frost(snow.obj)
                    THEN "constructed" ELSE "ValidationError"]
    /\ UNCHANGED notSnow

NextSnow == SnowAndFrost

SpecSnow == InitSnow /\ [][NextSnow]_vars

(***************************************************************************)
(* Meteorology                                                             *)
(***************************************************************************)
MeteorologyInputs ==
    [lat : {-91, -90, 0, 90, 91},
     swetr : {0, 1},
     swetsine : {None, Some(0), Some(1)},
     penman_monteith : {None, Some("PenmanMonteith")},
     swmetdetail : {None, Some(0), Some(1)},
     swrain : {None, Some(0), Some(1), Some(2), Some(3)},
     table_rainflux : {None, Some("Table")},
     rainfil : {None, Some(<<>>), Some(<<"r">>)},
     nmetdetail : {None, Some(0), Some(1), Some(96), Some(97)}]

\* the Field(ge=, le=) constraints of Meteorology
MeteorologyFields(self) ==
    /\ self.lat >= -90 /\ self.lat <= 90
    /\ self.nmetdetail # None =>
          (Get(self.nmetdetail) >= 1 /\ Get(self.nmetdetail) <= 96)

\* a validator that wants the rain table whenever swrain is given
_validate_meteo_section_anyrain(self) ==
    IF self.swetr = 1
    THEN /\ self.swetsine # None
         /\ self.swrain # None
         /\ self.table_rainflux # None
    ELSE /\ self.penman_monteith # None
         /\ self.swmetdetail # None
         /\ IF self.swmetdetail = Some(1)
            THEN self.nmetdetail # None
            ELSE /\ self.swetsine # None
                 /\ self.swrain # None

\* Meteorology._validate_meteo_section: TRUE when no assertion fails
_validate_meteo_section(self) ==
    IF self.swetr = 1
    THEN /\ self.swetsine # None
         /\ self.swrain # None
         /\ IF self.swrain = Some(1) THEN self.table_rainflux # None
            ELSE IF self.swrain = Some(3)
                 THEN self.rainfil # None /\ Get(self.rainfil) # <<>>
                 ELSE TRUE
    ELSE /\ self.penman_monteith # None
         /\ self.swmetdetail # None
         /\ IF self.swmetdetail = Some(1)
            THEN self.nmetdetail # None
            ELSE /\ self.swetsine # None
                 /\ self.swrain # None

InitMet ==
    /\ \E i \in MeteorologyInputs : met = [state |-> "new", obj |-> i]
    /\ NoRun
    /\ tbl = Idle /\ rs = Idle /\ wd = Idle
    /\ iw = Idle /\ bb = Idle /\ res = Idle /\ snow = Idle
    /\ pcrop = Idle /\ gs = Idle /\ ser = Idle

\* Meteorology(**fields): the field constraints, then the validator
Meteorology ==
    /\ met.state = "new"
    /\ met' = [met EXCEPT !.state =
                   IF MeteorologyFields(met.obj)
                      /\ _validate_meteo_section(met.obj)
                   THEN "constructed" ELSE "ValidationError"]
    /\ UNCHANGED notMet

NextMet == Meteorology

SpecMet == InitMet /\ [][NextMet]_vars

(***************************************************************************)
(* Crop of plant/crop.py                                                   *)
(***************************************************************************)
PlantCropInputs ==
    [swcrop : {0, 1, 2},
     rds : {None, Some(0), Some(1), Some(5000), Some(5001)},
     table_croprotation : {None, Some("Table")},
     cropfiles : {None, Some(<<>>), Some(<<"grassd">>)}]

\* the Literal and Field(ge=, le=) constraints of Crop
PlantCropFields(self) ==
    /\ self.swcrop \in {0, 1}
    /\ self.rds # None => (Get(self.rds) >= 1 /\ Get(self.rds) <= 5000)

\* Crop._validate_crop_section: TRUE when no assertion fails.  The method
\* carries no model_validator decorator, so that construction never calls it.
_validate_crop_section(self) ==
    self.swcrop = 1 =>
        /\ self.rds # None
        /\ self.table_croprotation # None

InitPlantCrop ==
    /\ \E i \in PlantCropInputs : pcrop = [state |-> "new", obj |-> i]
    /\ NoRun
    /\ tbl = Idle /\ rs = Idle /\ wd = Idle
    /\ iw = Idle /\ bb = Idle /\ res = Idle /\ snow = Idle /\ met = Idle
    /\ gs = Idle /\ ser = Idle

\* Crop(**fields): the field constraints only
PlantCrop ==
    /\ pcrop.state = "new"
    /\ pcrop' = [pcrop EXCEPT !.state =
                     IF PlantCropFields(pcrop.obj)
                     THEN "constructed" ELSE "ValidationError"]
    /\ UNCHANGED notPcrop

NextPlantCrop == PlantCrop

SpecPlantCrop == InitPlantCrop /\ [][NextPlantCrop]_vars

(***************************************************************************)
(* GeneralSettings and its extension switches                              *)
(***************************************************************************)
MaxExtensions == 2

\* _ExtensionMixin: every switch field with its validation alias
_ExtensionMixin_fields ==
    << <<"swwba", "wba">>, <<"swend", "end">>, <<"swvap", "vap">>,
       <<"swbal", "bal">>, <<"swblc", "blc">>, <<"swsba", "sba">>,
       <<"swate", "ate">>, <<"swbma", "bma">>, <<"swdrf", "drf">>,
       <<"swswb", "swb">>, <<"swini", "ini">>, <<"swinc", "inc">>,
       <<"swcrp", "crp">>, <<"swstr", "str">>, <<"swirg", "irg">>,
       <<"swcsv", "csv">>, <<"swcsv_tz", "csv_tz">> >>

\* GeneralSettings._all_extensions: the names _ExtensionMixin accepts
_all_extensions ==
    [i \in 1..Len(_ExtensionMixin_fields) |-> _ExtensionMixin_fields[i][2]]

Range(s) == {s[i] : i \in 1..Len(s)}

\* [x for x in s if x not in known]
RECURSIVE NotIn(_, _)
NotIn(s, known) ==
    IF s = <<>> THEN <<>>
    ELSE (IF Head(s) \notin Range(known) THEN <<Head(s)>> ELSE <<>>)
         \o NotIn(Tail(s), known)

\* _ExtensionMixin(**kwargs): a field takes the value given under its
\* alias and is None without one
_ExtensionMixin(kwargs) ==
    LET fields == _ExtensionMixin_fields
        names == {fields[i][1] : i \in 1..Len(fields)}
        alias(f) == CHOOSE a \in Range(_all_extensions) :
                        \E i \in 1..Len(fields) : fields[i] = <<f, a>>
    IN [f \in names |->
           IF alias(f) \in DOMAIN kwargs THEN Some(kwargs[alias(f)])
           ELSE None]

EXTENSION_NAMES == Range(_all_extensions) \cup {"xyz", "CSV"}

\* nprintday: int = Field(default=1, ge=1, le=1440) is left at its default
GeneralSettingsInputs ==
    [extensions : SeqsOf(EXTENSION_NAMES, 0, MaxExtensions),
     nprintday : {1}]

\* field constraints with the upper bound of nprintday left out
GeneralSettingsFields_open(self) ==
    /\ self.nprintday >= 1

\* the Field(ge=, le=) constraints of GeneralSettings
GeneralSettingsFields(self) ==
    /\ self.nprintday >= 1 /\ self.nprintday <= 1440

\* a validator whose message names the first invalid extension only
validate_extensions_first(self) ==
    LET invalid_extensions == NotIn(self.extensions, _all_extensions)
    IN IF invalid_extensions # <<>>
       THEN [err |-> Some([type |-> "ValueError",
                           msg |-> <<"Invalid extensions: ",
                                     invalid_extensions[1]>>]),
             exts |-> None]
       ELSE [err |-> None,
             exts |-> Some(_ExtensionMixin(
                          [ext \in Range(_all_extensions) |->
                              IF ext \in Range(self.extensions)
                              THEN 1 ELSE 0]))]

\* GeneralSettings.validate_extensions: the error raised, or the exts set
validate_extensions(self) ==
    LET invalid_extensions == NotIn(self.extensions, _all_extensions)
    IN IF invalid_extensions # <<>>
       THEN [err |-> Some([type |-> "ValueError",
                           msg |-> <<"Invalid extensions: ">> \o
                                   Join([i \in 1..Len(invalid_extensions)
                                            |-> <<invalid_extensions[i]>>],
                                        ", ")]),
             exts |-> None]
       ELSE [err |-> None,
             exts |-> Some(_ExtensionMixin(
                          [ext \in Range(_all_extensions) |->
                              IF ext \in Range(self.extensions)
                              THEN 1 ELSE 0]))]

InitGeneralSettings ==
    /\ \E i \in GeneralSettingsInputs :
          gs = [state |-> "new", obj |-> i @@ [exts |-> None], err |-> None]
    /\ NoRun
    /\ tbl = Idle /\ rs = Idle /\ wd = Idle
    /\ iw = Idle /\ bb = Idle /\ res = Idle /\ snow = Idle /\ met = Idle
    /\ pcrop = Idle /\ ser = Idle

\* GeneralSettings(extensions=...): the field constraints, then the "after"
\* validator, which sets exts
GeneralSettings ==
    /\ gs.state = "new"
    /\ LET v == validate_extensions(gs.obj)
       IN gs' = IF ~GeneralSettingsFields(gs.obj)
                THEN [gs EXCEPT !.state = "ValidationError",
                                !.err = Some([type |-> "ValidationError",
                                              msg |-> <<"nprintday">>])]
                ELSE IF v.err # None
                THEN [gs EXCEPT !.state = "ValidationError", !.err = v.err]
                ELSE [gs EXCEPT !.state = "constructed",
                                !.obj.exts = v.exts]
    /\ UNCHANGED notGs

NextGeneralSettings == GeneralSettings

SpecGeneralSettings == InitGeneralSettings /\ [][NextGeneralSettings]_vars

(***************************************************************************)
(* The serializers of core/utils/serializers.py.  A table is its column    *)
(* names and its rows, every row one cell per column; names and cells are  *)
(* texts.  serialize_table and serialize_csv_table assign to the table     *)
(* they are given, so that each yields the table it leaves and the text    *)
(* it returns.                                                             *)
(***************************************************************************)
MaxColumns == 2
MaxTableRows == 2

LOWERCASE ==
    <<"a", "b", "c", "d", "e", "f", "g", "h", "i", "j", "k", "l", "m",
      "n", "o", "p", "q", "r", "s", "t", "u", "v", "w", "x", "y", "z">>

UPPERCASE ==
    <<"A", "B", "C", "D", "E", "F", "G", "H", "I", "J", "K", "L", "M",
      "N", "O", "P", "Q", "R", "S", "T", "U", "V", "W", "X", "Y", "Z">>

\* str.upper on one character
UpperChar(c) ==
    IF \E i \in 1..Len(LOWERCASE) : LOWERCASE[i] = c
    THEN UPPERCASE[CHOOSE i \in 1..Len(LOWERCASE) : LOWERCASE[i] = c]
    ELSE c

\* str.upper()
Upper(s) == [i \in 1..Len(s) |-> UpperChar(s[i])]

ColumnNames == {<<"d", "v", "s">>, <<"C", "F">>, <<"h">>}

Cells == {<<"1">>, <<"0", ".", "5">>}

\* the tables with the given columns, the cells of column c drawn from
\* values[c]
TablesOver(columns, values) ==
    {[columns |-> columns, rows |-> rows] :
        rows \in SeqsOf({row \in [1..Len(columns) -> UNION Range(values)] :
                            \A c \in 1..Len(columns) : row[c] \in values[c]},
                        0, MaxTableRows)}

Tables ==
    UNION {TablesOver(columns, [c \in 1..Len(columns) |-> Cells]) :
              columns \in SeqsOf(ColumnNames, 1, MaxColumns)}

\* DataFrame.to_string(index=False): the header line and one line per row;
\* a table without rows is rendered as a note of three lines.  The cells
\* of a line are kept apart by one blank (the padding that aligns the
\* columns is left out).
to_string(table) ==
    IF table.rows = <<>>
    THEN <<"E", "m", "p", "t", "y", " ",
           "D", "a", "t", "a", "F", "r", "a", "m", "e", NL,
           "C", "o", "l", "u", "m", "n", "s", ":", " ", "[">>
         \o Join([i \in 1..Len(table.columns) |->
                     (IF i = 1 THEN <<>> ELSE <<" ">>) \o table.columns[i]],
                 ",")
         \o <<"]", NL, "I", "n", "d", "e", "x", ":", " ", "[", "]">>
    ELSE Join(<<Join(table.columns, " ")>>
              \o [r \in 1..Len(table.rows) |-> Join(table.rows[r], " ")],
              NL)

\* a serialize_table that leaves the column names as they are
serialize_table_asis(table) ==
    [table |-> table, text |-> to_string(table) \o <<NL>>]

\* serialize_table
serialize_table(table) ==
    LET upper == [table EXCEPT !.columns =
                     [i \in 1..Len(table.columns) |->
                         Upper(table.columns[i])]]
    IN [table |-> upper, text |-> to_string(upper) \o <<NL>>]

STATION == <<"S", "t", "a", "t", "i", "o", "n">>

RAIN == <<"R", "A", "I", "N">>

StationValues == {<<"2", "6", "0">>, <<"'", "2", "6", "0", "'">>, <<"'">>}

\* the weather tables: a Station column and a column of numbers
CsvTables ==
    UNION {TablesOver(columns,
                      [c \in 1..Len(columns) |->
                          IF columns[c] = STATION
                          THEN StationValues ELSE Cells]) :
              columns \in {<<STATION, RAIN>>, <<RAIN, STATION>>}}

\* every line followed by the line terminator
RECURSIVE Terminated(_)
Terminated(lines) ==
    IF lines = <<>> THEN <<>>
    ELSE Head(lines) \o <<NL>> \o Terminated(Tail(lines))

\* DataFrame.to_csv(index=False): the header and the rows, comma-separated
\* (no cell holds a comma, a double quote or a line break)
to_csv(table) ==
    Terminated(<<Join(table.columns, ",")>>
               \o [r \in 1..Len(table.rows) |-> Join(table.rows[r], ",")])

\* a serialize_csv_table that wraps every Station value in quotes
serialize_csv_table_always(table) ==
    LET k == CHOOSE c \in 1..Len(table.columns) : table.columns[c] = STATION
        quoted == [table EXCEPT !.rows =
                      [r \in 1..Len(table.rows) |->
                          [table.rows[r] EXCEPT ![k] =
                              <<"'">> \o @ \o <<"'">>]]]
    IN [table |-> quoted, text |-> to_csv(quoted)]

\* serialize_csv_table
serialize_csv_table(table) ==
    LET k == CHOOSE c \in 1..Len(table.columns) : table.columns[c] = STATION
        quoted == [table EXCEPT !.rows =
                      [r \in 1..Len(table.rows) |->
                          [table.rows[r] EXCEPT ![k] =
                              IF ~StartsWith(@, <<"'">>)
                              THEN <<"'">> \o @ \o <<"'">>
                              ELSE @]]]
    IN [table |-> quoted, text |-> to_csv(quoted)]

\* how often one object is serialized in a row
MaxCalls == 2

InitSerializers ==
    /\ \/ \E t \in Tables :
             ser = [state |-> "given", kind |-> "table", given |-> t,
                    obj |-> t, texts |-> <<>>]
       \/ \E t \in CsvTables :
             ser = [state |-> "given", kind |-> "csv_table", given |-> t,
                    obj |-> t, texts |-> <<>>]
       \/ \E b \in BottomBoundaryInputs :
             ser = [state |-> "given", kind |-> "section", given |-> b,
                    obj |-> b, texts |-> <<>>]
    /\ NoRun
    /\ tbl = Idle /\ rs = Idle /\ wd = Idle
    /\ iw = Idle /\ bb = Idle /\ res = Idle /\ snow = Idle /\ met = Idle
    /\ pcrop = Idle /\ gs = Idle

\* text = serialize_table(table)
CallSerializeTable ==
    /\ ser.kind = "table"
    /\ Len(ser.texts) < MaxCalls
    /\ LET r == serialize_table(ser.obj)
       IN ser' = [ser EXCEPT !.obj = r.table, !.texts = Append(@, r.text)]
    /\ UNCHANGED notSer

\* text = serialize_csv_table(table)
CallSerializeCsvTable ==
    /\ ser.kind = "csv_table"
    /\ Len(ser.texts) < MaxCalls
    /\ LET r == serialize_csv_table(ser.obj)
       IN ser' = [ser EXCEPT !.obj = r.table, !.texts = Append(@, r.text)]
    /\ UNCHANGED notSer

\* text = section.model_string()
CallSectionModelString ==
    /\ ser.kind = "section"
    /\ Len(ser.texts) < MaxCalls
    /\ ser' = [ser EXCEPT
                  !.texts = Append(@, BottomBoundary_model_string(ser.obj))]
    /\ UNCHANGED notSer

NextSerializers ==
    CallSerializeTable \/ CallSerializeCsvTable \/ CallSectionModelString

SpecSerializers == InitSerializers /\ [][NextSerializers]_vars

(***************************************************************************)
(* quote_string of core/utils/serializers.py                               *)
(***************************************************************************)
MaxStringLen == 4

StringChars == {"1", ".", "e", "E", "-", "+", "a", "/", "_"}

Strings == SeqsOf(StringChars, 0, MaxStringLen)

\* the character class \d
IsDigit(c) == c \in {"0", "1", "2", "3", "4", "5", "6", "7", "8", "9"}

\* the character class [a-zA-Z/]
IsLetterOrSlash(c) ==
    c \in Range(LOWERCASE) \cup Range(UPPERCASE) \cup {"/"}

\* one step of the match of [+-]?(\d+(\.\d*)?|\.\d+)[eE][+-]?\d+ : the
\* part of the pattern reached after reading c in part q
SciStep(q, c) ==
    CASE q = "start" /\ c \in {"+", "-"} -> "sign"
      [] q \in {"start", "sign", "int"} /\ IsDigit(c) -> "int"
      [] q \in {"start", "sign"} /\ c = "." -> "dot"
      [] q = "int" /\ c = "." -> "frac"
      [] q \in {"dot", "frac"} /\ IsDigit(c) -> "frac"
      [] q \in {"int", "frac"} /\ c \in {"e", "E"} -> "e"
      [] q = "e" /\ c \in {"+", "-"} -> "esign"
      [] q \in {"e", "esign", "exp"} /\ IsDigit(c) -> "exp"
      [] OTHER -> "fail"

RECURSIVE SciMatch(_, _)
SciMatch(q, s) ==
    IF s = <<>> THEN q = "exp" ELSE SciMatch(SciStep(q, Head(s)), Tail(s))

\* is_scientific_notation
is_scientific_notation(s) == SciMatch("start", s)

\* a quote_string that looks for letters only
quote_string_letters(string) ==
    IF is_scientific_notation(string) THEN Upper(string)
    ELSE IF \E i \in 1..Len(string) :
               string[i] \in Range(LOWERCASE) \cup Range(UPPERCASE)
         THEN <<"'">> \o string \o <<"'">>
         ELSE string

\* quote_string
quote_string(string) ==
    IF is_scientific_notation(string) THEN Upper(string)
    ELSE IF \E i \in 1..Len(string) : IsLetterOrSlash(string[i])
         THEN <<"'">> \o string \o <<"'">>
         ELSE string

InitQuote ==
    /\ \E s \in Strings :
          ser = [state |-> "given", kind |-> "string", given |-> s,
                 out |-> None]
    /\ NoRun
    /\ tbl = Idle /\ rs = Idle /\ wd = Idle
    /\ iw = Idle /\ bb = Idle /\ res = Idle /\ snow = Idle /\ met = Idle
    /\ pcrop = Idle /\ gs = Idle

\* out = quote_string(s)
CallQuoteString ==
    /\ ser.kind = "string"
    /\ ser.out = None
    /\ ser' = [ser EXCEPT !.out = Some(quote_string(ser.given))]
    /\ UNCHANGED notSer

NextQuote == CallQuoteString

SpecQuote == InitQuote /\ [][NextQuote]_vars

(***************************************************************************)
(* Validation of a table against its schema (components/tables.py)         *)
(***************************************************************************)
\* a column of a schema: pa.Field(ge=..., le=...); "| None" makes it optional
Column(name, required, ge, le) ==
    [name |-> name, required |-> required, ge |-> ge, le |-> le]

\* DVS: Series[float] | None = pa.Field(**DVSRANGE)
DVS == Column("DVS", FALSE, Some(0), Some(2))

\* DNR: Series[float] | None = pa.Field(**YEARRANGE)
DNR == Column("DNR", FALSE, Some(0), Some(366))

\* the schemas with the columns DVS and DNR, and the two schemas of the
\* losses of dry matter: HGRZ: Series[float] = pa.Field(ge=1000, le=0)
TableSchemas ==
    [RDTB |-> <<DVS, DNR, Column("RD", TRUE, Some(0), Some(100))>>,
     CFTB |-> <<DVS, DNR, Column("CF", FALSE, None, None)>>,
     CHTB |-> <<DVS, DNR, Column("CF", FALSE, None, None),
                Column("CH", FALSE, None, None)>>,
     SLATB |-> <<DVS, DNR, Column("SLA", TRUE, Some(0), Some(1))>>,
     AMAXTB |-> <<DVS, DNR, Column("AMAX", TRUE, Some(0), Some(100))>>,
     RFSETB |-> <<DVS, DNR, Column("RFSE", TRUE, Some(0), Some(1))>>,
     FRTB |-> <<DVS, DNR, Column("FR", TRUE, Some(0), Some(1))>>,
     FLTB |-> <<DVS, DNR, Column("FL", TRUE, Some(0), Some(1))>>,
     FSTB |-> <<DVS, DNR, Column("FS", TRUE, Some(0), Some(1))>>,
     RDRRTB |-> <<DVS, DNR, Column("RDRR", TRUE, Some(0), None)>>,
     RDRSTB |-> <<DVS, DNR, Column("RDRS", TRUE, Some(0), None)>>,
     LOSSGRZTB |-> <<Column("HGRZ", TRUE, Some(1000), Some(0)),
                     Column("HLOSSGRZ", TRUE, Some(0), Some(1))>>,
     LOSSMOWTB |-> <<Column("HMOW", TRUE, Some(1000), Some(0)),
                     Column("HLOSSMOW", TRUE, Some(0), Some(1))>>]

\* the check of one value against the bounds of its column
InBounds(column, v) ==
    /\ column.ge # None => v >= Get(column.ge)
    /\ column.le # None => v <= Get(column.le)

\* validation of a table against a schema: a required column is there, and
\* every value of a column that is there passes the checks of the column
validate(schema, table) ==
    \A i \in 1..Len(schema) :
        /\ schema[i].required => schema[i].name \in DOMAIN table
        /\ schema[i].name \in DOMAIN table =>
               \A k \in 1..Len(table[schema[i].name]) :
                   InBounds(schema[i], table[schema[i].name][k])

\* the number of rows of the tables tried
MaxSeriesLen == 2

\* the values tried in a column: its lower bound and the value above its
\* upper bound; for a pressure head, the ends of the documented range, the
\* value below it and the lower bound declared
SeriesValues(column) ==
    IF column.name \in {"HGRZ", "HMOW"}
    THEN {0 - 1001, 0 - 1000, 0, 1000}
    ELSE (IF column.ge = None THEN {0} ELSE {Get(column.ge)})
         \cup (IF column.le = None THEN {} ELSE {Get(column.le) + 1})

\* the tables of n rows over the first i columns of a schema, each column
\* there or not
RECURSIVE TablesOf(_, _, _)
TablesOf(schema, i, n) ==
    IF i = 0
    THEN {[m \in {} |-> <<>>]}
    ELSE LET rest == TablesOf(schema, i - 1, n)
         IN  rest \cup {t @@ (schema[i].name :> s) :
                           t \in rest,
                           s \in [1..n -> SeriesValues(schema[i])]}

TableInputs ==
    UNION {{[schema |-> name, data |-> t] :
               t \in UNION {TablesOf(TableSchemas[name],
                                     Len(TableSchemas[name]), n)
                                : n \in 1..MaxSeriesLen}}
           : name \in DOMAIN TableSchemas}

InitTable ==
    /\ tbl \in {[state |-> "given", schema |-> i.schema, data |-> i.data]
                   : i \in TableInputs}
    /\ iw = Idle /\ bb = Idle /\ res = Idle /\ snow = Idle /\ met = Idle
    /\ pcrop = Idle /\ gs = Idle /\ ser = Idle /\ rs = Idle /\ wd = Idle
    /\ NoRun

\* cls.validate(df): the table comes back, or a SchemaError is raised
ValidateTable ==
    /\ tbl.state = "given"
    /\ tbl' = [tbl EXCEPT !.state =
                   IF validate(TableSchemas[tbl.schema], tbl.data)
                   THEN "validated" ELSE "SchemaError"]
    /\ UNCHANGED notTbl

NextTable == ValidateTable

SpecTable == InitTable /\ [][NextTable]_vars

(***************************************************************************)
(* Construction with values at and around the bounds of a field            *)
(***************************************************************************)
\* the values tried for a field with Field(ge=lo, le=hi)
AroundBounds(lo, hi) == {lo - 1, lo, lo + 1, hi - 1, hi, hi + 1}

MeteorologyRangeInputs ==
    [lat : AroundBounds(-90, 90),
     swetr : {0, 1},
     swetsine : {Some(0)},
     penman_monteith : {Some("PenmanMonteith")},
     swmetdetail : {Some(0), Some(1)},
     swrain : {Some(0)},
     table_rainflux : {None},
     rainfil : {None},
     nmetdetail : {None} \cup {Some(v) : v \in AroundBounds(1, 96)}]

GeneralSettingsRangeInputs ==
    [extensions : {<<>>, <<"csv">>},
     nprintday : AroundBounds(1, 1440)]

InitRanges ==
    /\ \/ /\ \E i \in MeteorologyRangeInputs :
                met = [state |-> "new", obj |-> i]
          /\ gs = Idle
       \/ /\ \E i \in GeneralSettingsRangeInputs :
                gs = [state |-> "new", obj |-> i @@ [exts |-> None],
                      err |-> None]
          /\ met = Idle
    /\ iw = Idle /\ bb = Idle /\ res = Idle /\ snow = Idle
    /\ pcrop = Idle /\ ser = Idle /\ tbl = Idle /\ rs = Idle /\ wd = Idle
    /\ NoRun

NextRanges == Meteorology \/ GeneralSettings

SpecRanges == InitRanges /\ [][NextRanges]_vars

(***************************************************************************)
(* RichardsSettings (components/simsettings.py)                            *)
(***************************************************************************)
\* the timesteps are counted in units of 1.0e-7 d
RichardsSettingsInputs ==
    [swkmean : {None, Some(1), Some(6), Some(7)},
     dtmin : {None, Some(0), Some(1), Some(10), Some(400000), Some(1000000),
              Some(1000001)},
     dtmax : {None, Some(9), Some(10), Some(400000), Some(10000000),
              Some(10000001)},
     maxit : {None, Some(4), Some(5), Some(100), Some(101)}]

\* the Literal and Field(ge=, le=) constraints of RichardsSettings:
\* dtmin = Field(default=0.000001, ge=1e-7, le=0.1),
\* dtmax = Field(default=0.04, ge=0.000001, le=1.0)
RichardsSettingsFields(self) ==
    /\ self.swkmean # None => Get(self.swkmean) \in 1..6
    /\ self.dtmin # None =>
          (Get(self.dtmin) >= 1 /\ Get(self.dtmin) <= 1000000)
    /\ self.dtmax # None =>
          (Get(self.dtmax) >= 10 /\ Get(self.dtmax) <= 10000000)
    /\ self.maxit # None => (Get(self.maxit) >= 5 /\ Get(self.maxit) <= 100)

InitRichardsSettings ==
    /\ \E i \in RichardsSettingsInputs : rs = [state |-> "new", obj |-> i]
    /\ iw = Idle /\ bb = Idle /\ res = Idle /\ snow = Idle /\ met = Idle
    /\ pcrop = Idle /\ gs = Idle /\ ser = Idle /\ tbl = Idle /\ wd = Idle
    /\ NoRun

\* RichardsSettings(**fields): the field constraints; there is no validator
RichardsSettings ==
    /\ rs.state = "new"
    /\ rs' = [rs EXCEPT !.state =
                  IF RichardsSettingsFields(rs.obj)
                  THEN "constructed" ELSE "ValidationError"]
    /\ UNCHANGED notRs

NextRichardsSettings == RichardsSettings

SpecRichardsSettings == InitRichardsSettings /\ [][NextRichardsSettings]_vars

(***************************************************************************)
(* MeteorologicalData.weather_kmni (atmosphere/meteorology.py)             *)
(***************************************************************************)
\* the number of daily records of a download
MaxRecords == 1

\* a daily record of KNMI: integers in the units of the provider
KnmiRecords ==
    [STN : {260}, YYYYMMDD : {20000101, 20201231},
     Q : {0, 1500}, TN : {-15, 30}, TX : {55}, UG : {80},
     FG : {0, 37}, RH : {-1, 0, 124}, EV24 : {12}, DR : {0, 10, 240}]

Downloads == SeqsOf(KnmiRecords, 1, MaxRecords)

\* a number as a fraction n/d, and its product with num/den
Fraction(n, d) == [n |-> n, d |-> d]

Times(q, num, den) == Fraction(q.n * num, q.d * den)

\* one record after the renaming, the reordering and the recalculation:
\* five columns * 0.1, and WET * 0.1 * 24
Recalculated(r) ==
    [Station |-> r.STN,
     DD |-> r.YYYYMMDD % 100,
     MM |-> (r.YYYYMMDD \div 100) % 100,
     YYYY |-> r.YYYYMMDD \div 10000,
     RAD |-> Fraction(r.Q, 1),
     Tmin |-> Times(Fraction(r.TN, 1), 1, 10),
     Tmax |-> Times(Fraction(r.TX, 1), 1, 10),
     HUM |-> Fraction(r.UG, 1),
     WIND |-> Times(Fraction(r.FG, 1), 1, 10),
     RAIN |-> Times(Fraction(r.RH, 1), 1, 10),
     ETref |-> Times(Fraction(r.EV24, 1), 1, 10),
     WET |-> Times(Times(Fraction(r.DR, 1), 1, 10), 24, 1)]

\* MeteorologicalData.weather_kmni: the table stored in file_meteo
weather_kmni(download) ==
    [i \in 1..Len(download) |-> Recalculated(download[i])]

InitWeather ==
    /\ \E download \in Downloads :
          wd = [state |-> "downloaded", download |-> download,
                file_meteo |-> None]
    /\ iw = Idle /\ bb = Idle /\ res = Idle /\ snow = Idle /\ met = Idle
    /\ pcrop = Idle /\ gs = Idle /\ ser = Idle /\ tbl = Idle /\ rs = Idle
    /\ NoRun

\* self.file_meteo = weather_df
CallWeatherKmni ==
    /\ wd.state = "downloaded"
    /\ wd' = [wd EXCEPT !.state = "formatted",
                        !.file_meteo = Some(weather_kmni(wd.download))]
    /\ UNCHANGED notWd

NextWeather == CallWeatherKmni

SpecWeather == InitWeather /\ [][NextWeather]_vars

(***************************************************************************)
(* Assignment to GeneralSettings.extensions (validate_assignment=True)     *)
(***************************************************************************)
\* the number of assignments to one object
MaxAssignments == 2

\* the lists constructed with and assigned: two known names, one unknown
AssignedExtensions == SeqsOf({"csv", "vap", "xyz"}, 0, MaxExtensions)

\* self.extensions = value: the field is validated and stored in the
\* object, and then the "after" validator runs on the object
validate_assignment(self, value) ==
    LET stored == [self EXCEPT !.extensions = value]
        v == validate_extensions(stored)
    IN IF v.err # None
       THEN [obj |-> stored, err |-> v.err]
       ELSE [obj |-> [stored EXCEPT !.exts = v.exts], err |-> None]

InitAssign ==
    /\ \E extensions \in AssignedExtensions :
          gs = [state |-> "new",
                obj |-> [extensions |-> extensions, nprintday |-> 1,
                         exts |-> None],
                err |-> None, assignments |-> 0, before |-> None,
                value |-> None, raised |-> None]
    /\ iw = Idle /\ bb = Idle /\ res = Idle /\ snow = Idle /\ met = Idle
    /\ pcrop = Idle /\ ser = Idle /\ tbl = Idle /\ rs = Idle /\ wd = Idle
    /\ NoRun

\* settings.extensions = value
SetExtensions(value) ==
    /\ gs.state = "constructed"
    /\ gs.assignments < MaxAssignments
    /\ LET a == validate_assignment(gs.obj, value)
       IN gs' = [gs EXCEPT !.obj = a.obj, !.raised = a.err,
                           !.before = Some(gs.obj),
                           !.value = Some(value),
                           !.assignments = @ + 1]
    /\ UNCHANGED notGs

NextAssign ==
    \/ GeneralSettings
    \/ \E value \in AssignedExtensions : SetExtensions(value)

SpecAssign == InitAssign /\ [][NextAssign]_vars

(***************************************************************************)
(* Construction of either section: a SnowAndFrost or a Meteorology         *)
(***************************************************************************)
InitSections == InitSnow \/ InitMet

NextSections == SnowAndFrost \/ Meteorology

SpecSections == InitSections /\ [][NextSections]_vars

(***************************************************************************)
(* Properties of Model.run                                                 *)
(***************************************************************************)
Ended(r) == run[r].pc \in {"returned", "raised"}

EngineFailed(r) ==
    /\ run[r].result # None
    /\ ~Contains(Get(run[r].result), NORMAL_COMPLETION)

\* C1: when the text captured from the engine lacks 'normal completion',
\* run raises an exception whose message contains the whole captured text,
\* nothing of the output is read and no Result is returned.
C1_EngineFailureRaises ==
    \A r \in Runs :
        EngineFailed(r) =>
            /\ run[r].pc \in {"check", "exit", "raised"}
            /\ run[r].ret = None
            /\ run[r].log = None
            /\ run[r].pc # "check" =>
                   /\ run[r].exc # None
                   /\ Get(run[r].exc).kind = "Exception"
                   /\ LET msg == Get(run[r].exc).msg
                          text == Get(run[r].result)
                      IN \E i \in 1..(Len(msg) - Len(text) + 1) :
                            \A j \in 1..Len(text) : msg[i + j - 1] = text[j]

C1_Witness ==
    \E r \in Runs : EngineFailed(r) /\ run[r].pc = "raised"

\* C2: once run has ended, by return or by any exception, the scratch
\* directory it created no longer exists, and so none of its files.
C2_ScratchRemoved ==
    \A r \in Runs :
        (Ended(r) /\ run[r].tempdir # None) =>
            Get(run[r].tempdir) \notin DOMAIN fs

\* a run that failed while reading the output, after the engine wrote files
C2_Witness ==
    \E r \in Runs :
        /\ run[r].pc = "raised"
        /\ run[r].tempdir # None
        /\ run[r].log # None
        /\ Get(run[r].exc).kind = "FileNotFoundError"

C2_WitnessReturn == \E r \in Runs : run[r].pc = "returned"

C2_WitnessWrite ==
    \E r \in Runs :
        /\ run[r].pc = "raised"
        /\ run[r].tempdir # None
        /\ run[r].result = None

\* C3: every warning line of the log is handed to the warning mechanism
\* once, in log order; the warnings never end the run; the Result carries
\* exactly those lines.
C3_WarningsNonFatal ==
    \A r \in Runs :
        run[r].log # None =>
            LET w == SelectSeq(Split(Get(run[r].log), NL), IsWarningLine)
            IN /\ run[r].pc = "warn" =>
                      run[r].warned = SubSeq(w, 1, run[r].widx - 1)
               /\ run[r].pc # "warn" => run[r].warned = w
               /\ run[r].exc # None =>
                      Get(run[r].exc).kind = "FileNotFoundError"
               /\ run[r].ret # None => Get(run[r].ret).warning = w
               /\ run[r].pc = "returned" => run[r].ret # None

\* a Result returned for a log with two different warning lines
C3_Witness ==
    \E r \in Runs :
        /\ run[r].pc = "returned"
        /\ Len(Get(run[r].ret).warning) >= 2
        /\ Get(run[r].ret).warning[1] # Get(run[r].ret).warning[2]
        /\ run[r].warned = Get(run[r].ret).warning

\* a crop-rotation table naming a crop file the collection does not hold
Dangling(c) ==
    /\ c.croprotation # None
    /\ \E i \in 1..Len(Get(c.croprotation)) :
          Get(c.croprotation)[i] \notin c.cropfiles

\* C5: a Crop whose crop-rotation table names a crop file that is not in
\* cropfiles fails validation, before a file is written or the engine run.
C5_DanglingCropRejected ==
    Dangling(model.crop) =>
        /\ model.state # "valid"
        /\ \A r \in Runs : run[r].pc = "idle"
        /\ DOMAIN fs = {}

\* the scratch directory of run r exists; its files
HasDir(r) == run[r].tempdir # None /\ Get(run[r].tempdir) \in DOMAIN fs

FilesOf(r) == DOMAIN fs[Get(run[r].tempdir)]

\* _write_inputs is through, and the engine is about to start or has run
InputsWritten(r) == run[r].pc = "run_exe" \/ run[r].result # None

IrrigationData ==
    /\ model.irrigation.fixedirrig # None
    /\ Get(model.irrigation.fixedirrig).irrigationdata

\* C28: the engine is started only after the executable was copied into
\* the scratch directory and _write_inputs has finished; _write_inputs
\* writes swap.swp first and then the drainage, crop, meteorological and
\* irrigation files only when their data are present (the irrigation file
\* only when both fixedirrig and its irrigationdata are set); a satellite
\* file whose data are absent is never written.
C28_InputsBeforeEngine ==
    \A r \in Runs :
        HasDir(r) =>
            /\ InputsWritten(r) =>
                  /\ {"swap420", "swap.swp"} \subseteq FilesOf(r)
                  /\ model.lateraldrainage.drainagefile
                         => "swap.dra" \in FilesOf(r)
                  /\ model.crop.cropfiles \subseteq FilesOf(r)
                  /\ model.meteorology.meteodata => "swap.met" \in FilesOf(r)
                  /\ IrrigationData => "swap.irg" \in FilesOf(r)
            /\ "swap.swp" \in FilesOf(r) => "swap420" \in FilesOf(r)
            /\ FilesOf(r) \cap ({"swap.dra", "swap.met", "swap.irg"}
                                \cup CropNames) # {}
                   => "swap.swp" \in FilesOf(r)
            /\ "swap.dra" \in FilesOf(r)
                   => model.lateraldrainage.drainagefile
            /\ FilesOf(r) \cap CropNames \subseteq model.crop.cropfiles
            /\ "swap.met" \in FilesOf(r) => model.meteorology.meteodata
            /\ "swap.irg" \in FilesOf(r) => IrrigationData
            /\ run[r].pc \in {"write_dra", "write_crop", "write_met",
                              "write_irg"}
                   => "swap.swp" \in FilesOf(r)
            /\ run[r].pc = "write_irg" =>
                   (model.meteorology.meteodata
                        => "swap.met" \in FilesOf(r))

\* the engine has run on a directory with an irrigation file and without a
\* drainage file, and one with fixedirrig set but without irrigation data
C28_Witness ==
    \E r \in Runs :
        /\ HasDir(r) /\ run[r].result # None
        /\ "swap.irg" \in FilesOf(r)
        /\ "swap.dra" \notin FilesOf(r)

C28_WitnessNoData ==
    \E r \in Runs :
        /\ HasDir(r) /\ run[r].result # None
        /\ model.irrigation.fixedirrig # None
        /\ "swap.irg" \notin FilesOf(r)

\* C29: the log and the output files that make the Result (result.blc,
\* result_output.csv, result.vap) are read only after the engine reported
\* normal completion and while the scratch directory exists, and the
\* directory of a run that returns is removed only after the Result has
\* been constructed.
C29_ReadBeforeRemoval ==
    \A r \in Runs :
        /\ (run[r].log # None \/ run[r].summary # None
            \/ run[r].output # None \/ run[r].vap # None)
               => /\ run[r].result # None
                  /\ Contains(Get(run[r].result), NORMAL_COMPLETION)
        /\ run[r].pc \in {"read_log", "warn", "read_blc", "read_csv",
                          "read_vap", "build"}
               => /\ HasDir(r)
                  /\ Contains(Get(run[r].result), NORMAL_COMPLETION)
        /\ HasDir(r) =>
               /\ run[r].log # None =>
                      run[r].log = Some(fs[Get(run[r].tempdir)][LOG_FILE])
               /\ run[r].summary # None =>
                      run[r].summary =
                          Some(fs[Get(run[r].tempdir)]["result.blc"])
               /\ run[r].output # None =>
                      run[r].output =
                          Some(fs[Get(run[r].tempdir)]["result_output.csv"])
               /\ run[r].vap # None =>
                      run[r].vap =
                          Some(fs[Get(run[r].tempdir)]["result.vap"])
        /\ run[r].ret # None =>
               /\ run[r].log # None /\ run[r].summary # None
               /\ run[r].output # None /\ run[r].vap # None
               /\ Get(run[r].ret) =
                      Result(Get(run[r].summary), Get(run[r].output),
                             Get(run[r].vap), Get(run[r].log),
                             run[r].warnings)
        /\ (run[r].tempdir # None /\ ~HasDir(r) /\ run[r].exc = None)
               => run[r].ret # None

\* the Result is constructed and the directory is still there
C29_Witness ==
    \E r \in Runs :
        /\ run[r].pc = "exit"
        /\ run[r].ret # None
        /\ HasDir(r)

\* the directory of a run that returned is gone
C29_WitnessRemoved ==
    \E r \in Runs :
        /\ run[r].pc = "returned"
        /\ run[r].ret # None
        /\ ~HasDir(r)

\* run r is inside its with block: it has a scratch directory of its own
Owns(r) == run[r].tempdir # None /\ ~Ended(r)

\* the file name of the scratch directory of r holds what r has read
HoldsRead(r, name, read) ==
    read # None =>
        /\ exists(fs, Get(run[r].tempdir), name)
        /\ read = Some(fs[Get(run[r].tempdir)][name])

\* every run inside its with block has a directory, no two of them the
\* same, and what a run has read is what its own directory holds
OwnDirectories ==
    /\ \A r \in Runs :
          Owns(r) =>
              /\ HasDir(r)
              /\ HoldsRead(r, LOG_FILE, run[r].log)
              /\ HoldsRead(r, "result.blc", run[r].summary)
              /\ HoldsRead(r, "result_output.csv", run[r].output)
              /\ HoldsRead(r, "result.vap", run[r].vap)
    /\ \A r1, r2 \in Runs :
          (r1 # r2 /\ Owns(r1) /\ Owns(r2))
              => run[r1].tempdir # run[r2].tempdir

\* C26: two runs of Model.run at a time, interleaved in any order and with
\* the same base path, each own a distinct scratch directory and share no
\* mutable state: a step of one run leaves the other run and the directory
\* of the other run as they are, so that no file written or removed by one
\* run is read, overwritten or removed by the other, and each run reads,
\* and returns, what its own engine left in its own directory.
C26_RunsIsolated ==
    [][/\ \A r \in Runs :
              (Owns(r) /\ run'[r] = run[r]) =>
                  /\ Get(run[r].tempdir) \in DOMAIN fs'
                  /\ fs'[Get(run[r].tempdir)] = fs[Get(run[r].tempdir)]
       /\ \A r1, r2 \in Runs :
              r1 # r2 => (run'[r1] = run[r1] \/ run'[r2] = run[r2])
       /\ \A r \in Runs :
              (run'[r] # run[r] /\ fs' # fs) =>
                  \A d \in (DOMAIN fs \cup DOMAIN fs')
                               \ {Get(run'[r].tempdir)} :
                      d \in DOMAIN fs /\ d \in DOMAIN fs' /\ fs'[d] = fs[d]
       /\ OwnDirectories']_vars

\* both runs are inside their with blocks, one has read its output and the
\* engine of the other has run
C26_Witness ==
    /\ Owns(1) /\ Owns(2)
    /\ run[1].tempdir # run[2].tempdir
    /\ run[1].pc = "build"
    /\ run[2].pc = "check"

(***************************************************************************)
(* Properties of Model._identify_warnings                                  *)
(***************************************************************************)
WARNING_UPPER == <<"W", "A", "R", "N", "I", "N", "G">>

\* line[k+1..] begins with 'warning', whatever the case of its letters
WarningAt(line, k) ==
    /\ Len(line) >= k + Len(WARNING)
    /\ \A j \in 1..Len(WARNING) :
          line[k + j] \in {WARNING[j], WARNING_UPPER[j]}

BeginsWithWarning(line) == WarningAt(line, 0)

WarningAfterBlanks(line) ==
    \E k \in 0..Len(line) :
        /\ \A i \in 1..k : line[i] \in Whitespace
        /\ WarningAt(line, k)

\* C4 as stated: the result is exactly the lines that begin with
\* 'warning' (case-insensitive), in log order and unchanged.
C4_LinesBeginningWithWarning ==
    iw.state = "done" => iw.warnings = SelectSeq(iw.lines, BeginsWithWarning)

\* C4 as amended: the result is exactly the lines that begin with 'warning'
\* (case-insensitive) once their leading whitespace is left out, in log
\* order and with their text, whitespace included, unchanged.
C4_LinesWithWarningAfterBlanks ==
    iw.state = "done" => iw.warnings = SelectSeq(iw.lines, WarningAfterBlanks)

\* an indented and an upper-case warning line found, another line left out
C4_Witness ==
    /\ iw.state = "done"
    /\ Len(iw.warnings) = 1
    /\ Len(iw.lines) = 2
    /\ ~BeginsWithWarning(iw.warnings[1])

(***************************************************************************)
(* Properties of BottomBoundary                                            *)
(***************************************************************************)
NonNull(obj) == {f \in DOMAIN obj : obj[f] # None}

\* the fields a text has a line for
Emitted(text) == {text[i].name : i \in 1..Len(text)}

\* every line of the text carries the value of its field, once
Faithful(text, obj) ==
    /\ \A i \in 1..Len(text) : text[i].value = Get(obj[text[i].name])
    /\ \A i, j \in 1..Len(text) : text[i].name = text[j].name => i = j

\* C6: with swbbcfile = 1 model_string() emits only swbbcfile and bbcfil
\* and bbc() every other non-null field; the two share no field and
\* together cover the non-null fields.  Otherwise model_string() emits
\* every non-null field.
C6_TwoModeSerialization ==
    /\ bb.swp # None =>
          /\ Faithful(Get(bb.swp), bb.obj)
          /\ Emitted(Get(bb.swp)) =
                IF bb.obj["swbbcfile"] = Some(1)
                THEN NonNull(bb.obj) \cap FileReferenceFields
                ELSE NonNull(bb.obj)
    /\ bb.bbc # None =>
          /\ Faithful(Get(bb.bbc), bb.obj)
          /\ Emitted(Get(bb.bbc)) = NonNull(bb.obj) \ FileReferenceFields
    /\ (bb.swp # None /\ bb.bbc # None /\ bb.obj["swbbcfile"] = Some(1)) =>
          /\ Emitted(Get(bb.swp)) \cap Emitted(Get(bb.bbc)) = {}
          /\ Emitted(Get(bb.swp)) \cup Emitted(Get(bb.bbc)) = NonNull(bb.obj)

\* both texts of a section in file mode with a body field set
C6_Witness ==
    /\ bb.swp # None /\ bb.bbc # None
    /\ bb.obj["swbbcfile"] = Some(1)
    /\ bb.obj["bbcfil"] # None
    /\ Len(Get(bb.swp)) = 2
    /\ Len(Get(bb.bbc)) = 2

\* C7: write_bbc raises ValueError and writes nothing unless swbbcfile is
\* 1; with swbbcfile = 1 it writes exactly one file, named by bbcfil, whose
\* content is the text of bbc().
C7_WriteBbcOnlyInFileMode ==
    bb.written =>
        IF bb.obj["swbbcfile"] = Some(1)
        THEN /\ bb.err = None
             /\ DOMAIN bb.files = {<<bb.obj["bbcfil"], "bbc">>}
             /\ \A n \in DOMAIN bb.files :
                   /\ Emitted(bb.files[n]) =
                         NonNull(bb.obj) \ FileReferenceFields
                   /\ Faithful(bb.files[n], bb.obj)
                   /\ bb.bbc # None => bb.files[n] = Get(bb.bbc)
        ELSE /\ bb.err = Some("ValueError")
             /\ bb.files = NoFiles

\* write_bbc refused for a section kept inline
C7_Witness ==
    /\ bb.written
    /\ bb.obj["swbbcfile"] = Some(0)
    /\ bb.obj["bbcfil"] # None
    /\ bb.err = Some("ValueError")

C7_WitnessWritten ==
    /\ bb.written
    /\ bb.obj["swbbcfile"] = Some(1)
    /\ Cardinality(DOMAIN bb.files) = 1

(***************************************************************************)
(* Properties of SnowAndFrost                                              *)
(***************************************************************************)
SnowFields == {"snowinco", "teprrain", "teprsnow", "snowcoef"}

FrostFields == {"tfrostst", "tfrostend"}

Given(obj, fields) == \A f \in fields : obj[f] # None

\* C9: construction succeeds exactly when swsnow = 1 implies the four snow
\* fields are given and swfrost = 1 implies the two frost fields are given.
C9_SnowAndFrostRule ==
    snow.state # "new" =>
        (snow.state = "constructed" <=>
            /\ (snow.obj.swsnow = 1 => Given(snow.obj, SnowFields))
            /\ (snow.obj.swfrost = 1 => Given(snow.obj, FrostFields)))

\* swsnow = 0 with a complete frost part: accepted without any snow field
C9_Witness ==
    /\ snow.state = "constructed"
    /\ snow.obj.swsnow = 0 /\ snow.obj.swfrost = 1
    /\ \A f \in SnowFields : snow.obj[f] = None

C9_WitnessRejected ==
    /\ snow.state = "ValidationError"
    /\ snow.obj.swsnow = 0 /\ snow.obj.swfrost = 1
    /\ Given(snow.obj, SnowFields)

(***************************************************************************)
(* Properties of Meteorology                                               *)
(***************************************************************************)
\* the fields C10 names as required for the switch values of obj
RequiredBySwitches(obj) ==
    IF obj.swetr = 1 THEN {"swetsine", "swrain"}
    ELSE {"penman_monteith", "swmetdetail"} \cup
         (IF obj.swmetdetail = Some(1) THEN {"nmetdetail"}
          ELSE IF obj.swmetdetail = Some(0) THEN {"swetsine", "swrain"}
          ELSE {})

\* the rain rule the validator applies under swetr = 1
RainRule(obj) ==
    /\ obj.swrain = Some(1) => obj.table_rainflux # None
    /\ obj.swrain = Some(3) => obj.rainfil \notin {None, Some(<<>>)}

\* construction fails when a field required by the switches is missing
C10_Necessary ==
    (met.state # "new" /\ ~Given(met.obj, RequiredBySwitches(met.obj))) =>
        met.state = "ValidationError"

\* C10 as stated: the required fields are necessary and, when they are
\* supplied and in range, construction succeeds.
C10_SwitchRules ==
    /\ C10_Necessary
    /\ (/\ met.state # "new"
        /\ Given(met.obj, RequiredBySwitches(met.obj))
        /\ MeteorologyFields(met.obj)) => met.state = "constructed"

\* C10 as amended: the required fields are necessary; when they are
\* supplied and in range construction succeeds, provided that under
\* swetr = 1 the rain table comes with swrain = 1 and a non-empty rainfil
\* with swrain = 3.
C10_SwitchRulesWithRain ==
    /\ C10_Necessary
    /\ (/\ met.state # "new"
        /\ Given(met.obj, RequiredBySwitches(met.obj))
        /\ MeteorologyFields(met.obj)
        /\ met.obj.swetr = 1 => RainRule(met.obj)) => met.state = "constructed"

\* reference evapotranspiration given, swrain = 1 with its rain table
C10_Witness ==
    /\ met.state = "constructed"
    /\ met.obj.swetr = 1
    /\ met.obj.swrain = Some(1)
    /\ met.obj.table_rainflux # None
    /\ met.obj.penman_monteith = None
    /\ met.obj.swmetdetail = None

\* Penman-Monteith with daily records: swetsine and swrain are wanted
C10_WitnessPenman ==
    /\ met.state = "ValidationError"
    /\ met.obj.swetr = 0
    /\ met.obj.penman_monteith # None
    /\ met.obj.swmetdetail = Some(0)
    /\ met.obj.swetsine # None
    /\ met.obj.swrain = None
    /\ MeteorologyFields(met.obj)

\* C11: whatever swetr and swmetdetail are, a Meteorology that was
\* constructed has its rain table when swrain = 1 and a non-empty rainfil
\* when swrain = 3.
C11_RainRulesWhateverSwetr ==
    met.state = "constructed" => RainRule(met.obj)

(***************************************************************************)
(* Properties of the sections' dependent fields                            *)
(***************************************************************************)
\* none of the fields is given
Absent(obj, fields) == \A f \in fields : obj[f] = None

\* C12: a section that was constructed has no dependent field set that its
\* switches do not activate: no snow field with swsnow = 0, no frost field
\* with swfrost = 0, no Penman-Monteith settings with swetr = 1.
C12_InactiveFieldsRejected ==
    /\ snow.state = "constructed" =>
          /\ snow.obj.swsnow = 0 => Absent(snow.obj, SnowFields)
          /\ snow.obj.swfrost = 0 => Absent(snow.obj, FrostFields)
    /\ met.state = "constructed" =>
          (met.obj.swetr = 1 => Absent(met.obj, {"penman_monteith"}))

(***************************************************************************)
(* Properties of the Crop of plant/crop.py                                 *)
(***************************************************************************)
\* C13: with swcrop = 1 construction fails unless rds and the crop-rotation
\* table are both given; with swcrop = 0 a Crop whose fields are in range
\* is constructed without them.
C13_CropSectionRule ==
    /\ (pcrop.state = "constructed" /\ pcrop.obj.swcrop = 1) =>
          /\ pcrop.obj.rds # None
          /\ pcrop.obj.table_croprotation # None
    /\ (/\ pcrop.state \notin {"new", "unused"}
        /\ pcrop.obj.swcrop = 0
        /\ PlantCropFields(pcrop.obj)) => pcrop.state = "constructed"

(***************************************************************************)
(* Properties of GeneralSettings                                           *)
(***************************************************************************)
\* C14: when extensions holds a name outside the known list, construction
\* fails with a ValueError whose message names every invalid extension;
\* otherwise exts holds one switch per known extension, 1 exactly for the
\* extensions listed and 0 for all the others.
C14_ExtensionValidation ==
    gs.state \notin {"new", "unused"} =>
        LET listed == Range(gs.obj.extensions)
            known == Range(_all_extensions)
            fields == _ExtensionMixin_fields
        IN IF listed \ known # {}
           THEN /\ gs.state = "ValidationError"
                /\ gs.err # None
                /\ Get(gs.err).type = "ValueError"
                /\ (listed \ known) \subseteq Range(Get(gs.err).msg)
                /\ gs.obj.exts = None
           ELSE /\ gs.state = "constructed"
                /\ gs.obj.exts # None
                /\ DOMAIN Get(gs.obj.exts) =
                       {fields[i][1] : i \in 1..Len(fields)}
                /\ \A i \in 1..Len(fields) :
                       Get(gs.obj.exts)[fields[i][1]] =
                           Some(IF fields[i][2] \in listed THEN 1 ELSE 0)

\* two of the known extensions are listed
C14_Witness ==
    /\ gs.state = "constructed"
    /\ Range(gs.obj.extensions) = {"csv", "vap"}
    /\ Get(gs.obj.exts).swcsv = Some(1)
    /\ Get(gs.obj.exts).swcsv_tz = Some(0)

\* two names outside the known list
C14_WitnessInvalid ==
    /\ gs.state = "ValidationError"
    /\ Cardinality(Range(gs.obj.extensions) \ Range(_all_extensions)) = 2

\* C30: after construction and after any sequence of assignments to
\* extensions, exts matches the current extensions list (a switch is 1
\* exactly for the listed extensions, 0 otherwise), and an assignment of a
\* list with an invalid extension is rejected and leaves extensions and exts
\* as they were before it.
C30_ExtsFollowExtensions ==
    (gs.state = "constructed" /\ "assignments" \in DOMAIN gs) =>
        LET fields == _ExtensionMixin_fields
        IN /\ gs.obj.exts # None
           /\ \A i \in 1..Len(fields) :
                  Get(gs.obj.exts)[fields[i][1]] =
                      Some(IF fields[i][2] \in Range(gs.obj.extensions)
                           THEN 1 ELSE 0)
           /\ gs.assignments > 0 =>
                  /\ (gs.raised # None) <=>
                         (Range(Get(gs.value)) \ Range(_all_extensions)
                              # {})
                  /\ gs.raised # None => gs.obj = Get(gs.before)

(***************************************************************************)
(* Properties of the serializers                                           *)
(***************************************************************************)
\* C15: the texts obtained by serializing one table or section several
\* times in a row, with nothing else done to it, are all the same; this
\* holds for serialize_table, serialize_csv_table and
\* BottomBoundary.model_string.
C15_SerializedTwiceIdentical ==
    ser.state = "given" =>
        \A i, j \in 1..Len(ser.texts) : ser.texts[i] = ser.texts[j]

\* a weather table given with an unquoted Station value, serialized twice:
\* the first call has rewritten the table
C15_Witness ==
    /\ ser.state = "given"
    /\ ser.kind = "csv_table"
    /\ Len(ser.texts) = MaxCalls
    /\ ser.obj # ser.given

\* a table given with a lower-case column name, serialized twice
C15_WitnessTable ==
    /\ ser.state = "given"
    /\ ser.kind = "table"
    /\ Len(ser.texts) = MaxCalls
    /\ ser.obj.columns # ser.given.columns

\* a bottom boundary serialized twice
C15_WitnessSection ==
    /\ ser.state = "given"
    /\ ser.kind = "section"
    /\ Len(ser.texts) = MaxCalls
    /\ ser.texts[1] # <<>>

\* text is one header line with the upper-cased column names of table in
\* column order, then one line per row in row order holding the cells of
\* the row and nothing else, and ends with a newline
HeaderThenRows(table, text) ==
    LET lines == Split(text, NL)
    IN /\ Len(lines) = Len(table.rows) + 2
       /\ lines[Len(lines)] = <<>>
       /\ Split(lines[1], " ") =
              [i \in 1..Len(table.columns) |-> Upper(table.columns[i])]
       /\ \A r \in 1..Len(table.rows) :
              Split(lines[r + 1], " ") = table.rows[r]

\* C16 as stated: for every table, the output of serialize_table is the
\* header line of upper-cased column names, one line per row in row order
\* without an index column, and a final newline.
C16_HeaderThenRows ==
    (ser.state = "given" /\ ser.kind = "table") =>
        \A k \in 1..Len(ser.texts) : HeaderThenRows(ser.given, ser.texts[k])

\* C16 as amended: for every table with at least one row, the output of
\* serialize_table is the header line of upper-cased column names, one
\* line per row in row order without an index column, and a final newline.
C16_HeaderThenRowsOfNonEmpty ==
    (ser.state = "given" /\ ser.kind = "table" /\ ser.given.rows # <<>>) =>
        \A k \in 1..Len(ser.texts) : HeaderThenRows(ser.given, ser.texts[k])

\* a table of two columns, one named in lower case, and two rows
C16_Witness ==
    /\ ser.state = "given"
    /\ ser.kind = "table"
    /\ ser.texts # <<>>
    /\ Len(ser.given.columns) >= 2
    /\ Len(ser.given.rows) >= 2
    /\ ser.given.columns[1] # Upper(ser.given.columns[1])
    /\ ser.given.rows[1] # ser.given.rows[2]

(***************************************************************************)
(* Properties of quote_string                                              *)
(***************************************************************************)
\* one digit or more
Digits(s) == s # <<>> /\ \A i \in 1..Len(s) : IsDigit(s[i])

\* s without the sign in front of it, if it has one
Unsigned(s) == IF s # <<>> /\ s[1] \in {"+", "-"} THEN Tail(s) ELSE s

\* digits, digits with a decimal point among or after them, or a decimal
\* point followed by digits
Decimal(s) ==
    \E k \in 0..Len(s) :
        LET whole == SubSeq(s, 1, k)
            rest == SubSeq(s, k + 1, Len(s))
        IN \/ Digits(whole) /\ rest = <<>>
           \/ /\ Digits(whole)
              /\ rest # <<>> /\ rest[1] = "."
              /\ (Tail(rest) = <<>> \/ Digits(Tail(rest)))
           \/ /\ whole = <<>>
              /\ rest # <<>> /\ rest[1] = "."
              /\ Digits(Tail(rest))

\* a plain number: a decimal with or without a sign
PlainNumber(s) == Decimal(Unsigned(s))

\* a scientific-notation literal: a plain number, e or E, and an integer
\* exponent with or without a sign
SciLiteral(s) ==
    \E k \in 1..Len(s) :
        /\ s[k] \in {"e", "E"}
        /\ PlainNumber(SubSeq(s, 1, k - 1))
        /\ Digits(Unsigned(SubSeq(s, k + 1, Len(s))))

Quoted(s) == <<"'">> \o s \o <<"'">>

C17_WitnessUnquoted ==
    /\ ser.state = "given" /\ ser.kind = "string"
    /\ ser.given = <<"1", "-", "1">>
    /\ ser.out = Some(ser.given)

\* a scientific-notation literal comes back in upper case
C17_WitnessSci ==
    /\ ser.state = "given" /\ ser.kind = "string"
    /\ ser.given = <<"1", ".", "e", "1">>
    /\ ser.out = Some(<<"1", ".", "E", "1">>)

\* C27: for a string in scientific notation, quote_string returns the
\* string unchanged and without quotes.
C27_SciUnchanged ==
    (ser.state = "given" /\ ser.kind = "string" /\ ser.out # None
     /\ SciLiteral(ser.given))
        => Get(ser.out) = ser.given

(***************************************************************************)
(* Properties of Result                                                    *)
(***************************************************************************)
\* output is a mapping that holds a table under 'csv'
HoldsCsvTable(r) ==
    /\ "csv" \in DOMAIN Get(r.output)
    /\ Get(r.output)["csv"] # None
    /\ Get(Get(r.output)["csv"]).type = "DataFrame"

CsvRows(r) == Get(Get(r.output)["csv"]).rows

YearsOf(rows) == {rows[i].date[1] : i \in 1..Len(rows)}

\* the calendar years from the first to the last year of the index
Spanned(rows) ==
    {y \in Years : \E a, b \in YearsOf(rows) : a <= y /\ y <= b}

RECURSIVE SumOver(_, _)
SumOver(rows, I) ==
    IF I = {} THEN 0
    ELSE LET i == CHOOSE x \in I : TRUE
         IN rows[i].v + SumOver(rows, I \ {i})

\* C8: for an output mapping, yearly_summary raises TypeError when no table
\* is held under 'csv' (key absent or value None); otherwise it returns
\* one row per calendar year spanned by the index, in order, each the sum
\* of that year's rows.
C8_YearlySummary ==
    (res.summary # None /\ res.output # None) =>
        LET out == Get(res.summary)
        IN IF ~HoldsCsvTable(res)
           THEN out.err = Some("TypeError")
           ELSE /\ out.err = None
                /\ Len(out.rows) = Cardinality(Spanned(CsvRows(res)))
                /\ \A i \in 1..Len(out.rows) :
                      /\ out.rows[i].year \in Spanned(CsvRows(res))
                      /\ i > 1 => out.rows[i].year = out.rows[i - 1].year + 1
                      /\ out.rows[i].v =
                            SumOver(CsvRows(res),
                                    {k \in 1..Len(CsvRows(res)) :
                                        CsvRows(res)[k].date[1]
                                            = out.rows[i].year})

\* daily rows of two calendar years summed into two rows
C8_Witness ==
    /\ res.summary # None /\ res.output # None
    /\ HoldsCsvTable(res)
    /\ Len(CsvRows(res)) = 3
    /\ Cardinality(YearsOf(CsvRows(res))) = 2
    /\ Len(Get(res.summary).rows) = 2
    /\ Get(res.summary).rows[1].v = 3

\* TypeError for an output whose 'csv' entry is None
C8_WitnessTypeError ==
    /\ res.summary # None /\ res.output # None
    /\ "csv" \in DOMAIN Get(res.output)
    /\ Get(res.output)["csv"] = None
    /\ Get(res.summary).err = Some("TypeError")

(***************************************************************************)
(* Properties of the computed fields of Result and of assignment           *)
(***************************************************************************)
\* the three fields of a Result
Fields(r) == <<r.log, r.output, r.warning>>

\* C18 as stated: once a Result is created no operation, attribute
\* assignment or evaluation of a computed field, changes its log, its
\* output or its warning list.
C18_NeverChanges ==
    [][res.state = "created" => Fields(res') = Fields(res)]_vars

\* C18 as amended: evaluating ascii, csv, csv_tz, iteration_stats,
\* blc_summary or yearly_summary never changes log, output or warning; an
\* attribute assignment that validation refuses changes none of them
\* either, and one that it accepts changes no more than one of them.
C18_EvaluationNeverChanges ==
    [][res.state = "created" =>
          /\ res'.last.op # "__setattr__" => Fields(res') = Fields(res)
          /\ res'.last.err # None => Fields(res') = Fields(res)
          /\ Cardinality({i \in 1..Len(Fields(res)) :
                             Fields(res')[i] # Fields(res)[i]}) <= 1]_vars

\* blc_summary has printed the 'blc' entry of an output that still holds it
C18_Witness ==
    /\ res.state = "created"
    /\ res.last.op = "blc_summary"
    /\ res.last.printed # None
    /\ res.output # None
    /\ "blc" \in DOMAIN Get(res.output)
    /\ res.last.printed = Some(Get(res.output)["blc"])

\* the log was assigned after creation
C18_WitnessAssigned ==
    /\ res.state = "created"
    /\ res.last.op = "__setattr__"
    /\ res.last.err = None
    /\ res.log = Some(<<"x">>)

\* C19: ascii holds exactly the entries of output that are not CSV
\* outputs: 'csv' and 'csv_tz' are both left out, every other kind is
\* there with its content unchanged.
C19_AsciiWithoutCsv ==
    (res.state = "created" /\ res.last.op = "ascii" /\ res.last.err = None)
    => LET output == Get(res.output)
           value == Get(res.last.value)
       IN /\ DOMAIN value = DOMAIN output \ {"csv", "csv_tz"}
          /\ \A k \in DOMAIN value : k \in DOMAIN output /\ value[k] = output[k]

\* C20: blc_summary returns the text held under 'blc' whenever output has
\* such an entry.
C20_BlcSummaryReturnsText ==
    (/\ res.state = "created"
     /\ res.last.op = "blc_summary"
     /\ res.last.err = None
     /\ "blc" \in DOMAIN Get(res.output))
    => res.last.value = Get(res.output)["blc"]

(***************************************************************************)
(* Properties of the validation of tables                                  *)
(***************************************************************************)
\* the schemas whose axis is either the development stage or the day number
AxisTables ==
    {"RDTB", "CFTB", "CHTB", "SLATB", "AMAXTB", "RFSETB", "FRTB", "FLTB",
     "FSTB", "RDRRTB", "RDRSTB"}

\* C21: a table of a schema with the alternative axis columns DVS and DNR
\* passes validation only if exactly one of the two columns is there; a
\* table with both, or with neither, is rejected.
C21_ExactlyOneAxis ==
    (tbl.state = "validated" /\ tbl.schema \in AxisTables)
        => ("DVS" \in DOMAIN tbl.data) # ("DNR" \in DOMAIN tbl.data)

\* C23: a table of LOSSGRZTB or LOSSMOWTB whose pressure heads all lie in
\* [-1000..0] and whose loss fractions all lie in [0..1] passes validation,
\* and a table with a pressure head outside that range is rejected.
C23_PressureHeadRange ==
    (tbl.state \in {"validated", "SchemaError"}
     /\ tbl.schema \in {"LOSSGRZTB", "LOSSMOWTB"}
     /\ DOMAIN tbl.data = {c.name : c \in Range(TableSchemas[tbl.schema])})
        => LET head == TableSchemas[tbl.schema][1].name
               loss == TableSchemas[tbl.schema][2].name
               inrange ==
                   /\ \A k \in DOMAIN tbl.data[head] :
                          tbl.data[head][k] >= 0 - 1000
                          /\ tbl.data[head][k] <= 0
                   /\ \A k \in DOMAIN tbl.data[loss] :
                          tbl.data[loss][k] >= 0 /\ tbl.data[loss][k] <= 1
           IN  (tbl.state = "validated") <=> inrange

(***************************************************************************)
(* Properties of the fields with a range                                   *)
(***************************************************************************)
\* C22: the bounds of Meteorology.nmetdetail (1..96), GeneralSettings
\* .nprintday (1..1440) and Meteorology.lat (-90..90) are inclusive and
\* checked at construction: a value below the lower or above the upper bound
\* is rejected, and the bounds and the values between them are accepted (the
\* construction fails only when the validator of the section fails).
C22_InclusiveBounds ==
    /\ met.state \in {"constructed", "ValidationError"} =>
          LET lat == met.obj.lat
              nmetdetail == met.obj.nmetdetail
              inrange ==
                  /\ -90 <= lat /\ lat <= 90
                  /\ nmetdetail # None =>
                        (1 <= Get(nmetdetail) /\ Get(nmetdetail) <= 96)
          IN  /\ met.state = "constructed" => inrange
              /\ (inrange /\ _validate_meteo_section(met.obj))
                     => met.state = "constructed"
    /\ gs.state \in {"constructed", "ValidationError"} =>
          ((gs.state = "constructed") <=>
               (1 <= gs.obj.nprintday /\ gs.obj.nprintday <= 1440
                /\ validate_extensions(gs.obj).err = None))

\* a Meteorology with both fields on a bound is constructed
C22_Witness ==
    /\ met.state = "constructed"
    /\ met.obj.lat = -90
    /\ met.obj.nmetdetail = Some(96)

\* a GeneralSettings with nprintday on its upper bound is constructed, and
\* one above it is rejected
C22_WitnessNprintday ==
    /\ gs.state = "constructed"
    /\ gs.obj.nprintday = 1440

C22_WitnessRejected ==
    /\ gs.state = "ValidationError"
    /\ gs.obj.nprintday = 1441

(***************************************************************************)
(* Properties of RichardsSettings                                          *)
(***************************************************************************)
\* C24: a RichardsSettings is constructed only with dtmax within [dtmin..1]:
\* one whose dtmax is smaller than its own dtmin is rejected.
C24_DtmaxNotBelowDtmin ==
    (rs.state = "constructed"
     /\ rs.obj.dtmin # None /\ rs.obj.dtmax # None)
        => /\ Get(rs.obj.dtmax) >= Get(rs.obj.dtmin)
           /\ Get(rs.obj.dtmax) <= 10000000

(***************************************************************************)
(* Properties of weather_kmni                                              *)
(***************************************************************************)
\* the fraction q equals num/den
Equals(q, num, den) == q.n * den = num * q.d

\* C25: weather_kmni converts every downloaded value exactly to the unit of
\* the .met table: Tmin, Tmax and WIND are a tenth of the downloaded value,
\* RAIN (tenths of mm to cm) a hundredth, WET (0.1 hour to days) a 240th;
\* RAD and HUM are the downloaded values.
C25_UnitsOfMetTable ==
    wd.state = "formatted" =>
        \A i \in 1..Len(wd.download) :
            LET raw == wd.download[i]
                row == Get(wd.file_meteo)[i]
            IN  /\ Equals(row.Tmin, raw.TN, 10)
                /\ Equals(row.Tmax, raw.TX, 10)
                /\ Equals(row.WIND, raw.FG, 10)
                /\ Equals(row.RAIN, raw.RH, 100)
                /\ Equals(row.WET, raw.DR, 240)
                /\ Equals(row.RAD, raw.Q, 1)
                /\ Equals(row.HUM, raw.UG, 1)

====
